---- MODULE Spec2Model ----
(***************************************************************************)
(* A model of reapack-indexer: the CDATA escaping, the version-name        *)
(* ordering and increment, the publish command's version selection, and    *)
(* the entrypoint classification of index generation.                      *)
(*                                                                         *)
(* Text is modelled as a sequence of one-character strings, so that        *)
(* splitting, scanning and comparing are computed character by character   *)
(* as the Rust code computes them.                                         *)
(***************************************************************************)
EXTENDS Integers, Sequences, FiniteSets, TLC

VARIABLES
    text,          \* cdata: the argument `text`
    cdataResult,   \* cdata: the returned String, or None before the call
    cdataPc,       \* "start" | "done"
    incText,       \* increment_version: the argument `text`
    incResult,     \* increment_version: what the call came to, or None
    version_a,     \* compare_version_names: first argument
    version_b,     \* compare_version_names: second argument
    cmpResult,     \* the orderings returned for (a, b) and (b, a), or None
    versions,      \* find_latest_version: the items of the iterator, in order
    latestResult,  \* find_latest_version: Some(name) | NoneOption, or None before the call
    repoToml,      \* publish: whether <repo>/repository.toml exists
    srcKind,       \* publish: what `path` is: "missing" | "file" | "dir"
    pkgDir,        \* whether <repo>/<identifier> exists
    pkgToml,       \* whether <repo>/<identifier>/package.toml exists
    verDirs,       \* the subdirectories of the package: name -> [toml, files]
    pubPc,         \* publish: "idle" | "selected" | "copying" | "copied" | "done" | "failed"
    pubArgs,       \* publish: the arguments of the running call
    new_version,   \* publish: the local `new_version`
    copied,        \* publish: the files of `path` that the running call has copied
    pubError,      \* publish: the error the call returned, or None
    pubCount,      \* the number of publishes that went on to create a version
    treeAtCall,    \* the package tree as it was when the running call began
    pkg_type,      \* index: the package's PackageType
    pkgEntrypoints,\* index: config.entrypoints of the package (an Option of a map)
    verEntrypoints,\* index: config.entrypoints of the version (an Option of a map)
    sourcePaths,   \* index: the files of the version, as paths relative to it
    url_pattern,   \* index: the keys of the placeholders of the repository's url_pattern
    gitOk,         \* index: whether git rev-parse HEAD succeeds in the repository
    changelog,     \* index: the text of CHANGELOG.txt (an Option)
    idxResult,     \* index: what Version::element returned, or None before the call
    idxEntrypoints,\* index: what ver.entrypoints(pkg) returned, if it was called
    srcSections,   \* index: the filled `sections` cells: source -> set of sections
    idxChangelog,  \* index: the text of the changelog element of the version element
    memo,          \* index: the OnceCells of a package, its versions and their sources
    encPath,       \* url_encode_path: the argument `path`
    encResult,     \* url_encode_path: the Strings the calls so far returned
    dirEntries,    \* discovery: the entries read_dir yields for `dir`, in its order
    discResult,    \* discovery: the returned Vec and the warnings logged, or DiscNone
    repo,          \* export: the Repository read: its config, its directory, its collaborators
    genResult,     \* export: what generate_index came to, or GenNone before the call
    repoConfig,    \* export: the state of <repo>/repository.toml
    output         \* export: the file at output_path

cdataVars == <<text, cdataResult, cdataPc>>
incVars == <<incText, incResult>>
cmpVars == <<version_a, version_b, cmpResult>>
latestVars == <<versions, latestResult>>

treeVars == <<repoToml, srcKind, pkgDir, pkgToml, verDirs>>
pubVars == <<treeVars, pubPc, pubArgs, new_version, copied, pubError, pubCount, treeAtCall>>

idxConfig == <<pkg_type, pkgEntrypoints, verEntrypoints, sourcePaths, url_pattern, gitOk, changelog>>
idxVars == <<idxConfig, idxResult, idxEntrypoints, srcSections, idxChangelog, memo>>

encVars == <<encPath, encResult>>
discVars == <<dirEntries, discResult>>
genVars == <<repo, genResult, repoConfig, output>>

vars == <<cdataVars, incVars, cmpVars, latestVars, pubVars, idxVars, encVars, discVars, genVars>>

None == "None"

-----------------------------------------------------------------------------
(* Bounds *)

MaxTextLen == 6
MaxVerLen == 3
MaxCmpLen == 3
MaxVersions == 3
MaxPublishes == 2
MaxSources == 2
MaxPatternLen == 3
MaxPathLen == 5
MaxEncodeLen == 4
MaxEncodeCalls == 2
MaxEntries == 3
MaxPackages == 2
MaxVersionDirs == 2
MaxAutoPublishes == 11
MaxMemoVersions == 2

-----------------------------------------------------------------------------
(* Strings *)

RECURSIVE StringsUpTo(_, _)
StringsUpTo(alphabet, n) ==
    IF n = 0 THEN {<<>>}
    ELSE LET shorter == StringsUpTo(alphabet, n - 1)
         IN  shorter \cup {Append(s, c) : s \in {x \in shorter : Len(x) = n - 1}, c \in alphabet}

Drop(s, n) == SubSeq(s, n + 1, Len(s))

Items(seq) == {seq[i] : i \in 1..Len(seq)}

StartsWith(s, pat) == Len(pat) <= Len(s) /\ SubSeq(s, 1, Len(pat)) = pat

\* The byte offsets at which `pat` occurs in `s` (1-based).
Occurrences(s, pat) ==
    {i \in 1..(Len(s) - Len(pat) + 1) : SubSeq(s, i, i + Len(pat) - 1) = pat}

Contains(s, pat) == Occurrences(s, pat) # {}

Min(S) == CHOOSE x \in S : \A y \in S : x <= y

\* F applied to the value of v, v being evaluated once.
With(v, F(_)) == CHOOSE r \in {F(x) : x \in {v}} : TRUE

\* str::split(pat) for a non-empty pattern: the pieces between the matches of
\* pat found left to right without overlap; a string with no match is one piece.
RECURSIVE split(_, _)
split(s, pat) ==
    IF ~Contains(s, pat) THEN <<s>>
    ELSE LET i == Min(Occurrences(s, pat))
         IN  <<SubSeq(s, 1, i - 1)>> \o split(Drop(s, i + Len(pat) - 1), pat)

-----------------------------------------------------------------------------
(* cdata *)

CDATA_OPEN  == <<"<", "!", "[", "C", "D", "A", "T", "A", "[">>
CDATA_CLOSE == <<"]", "]", ">">>
CDATA_SPLIT == <<"]", "]", "]", "]", ">", "<", "!", "[", "C", "D", "A", "T", "A", "[", ">">>

\* The for loop of cdata over the parts, with its is_first_part flag.
RECURSIVE cdata_loop(_, _, _, _)
cdata_loop(parts, i, is_first_part, result) ==
    IF i > Len(parts) THEN result
    ELSE IF is_first_part
         THEN cdata_loop(parts, i + 1, FALSE, result \o parts[i])
         ELSE cdata_loop(parts, i + 1, FALSE, result \o CDATA_SPLIT \o parts[i])

\* Mutant: the text is wrapped without escaping its terminators.
cdata_unescaped(t) == CDATA_OPEN \o t \o CDATA_CLOSE

\* Mutant: the terminator is replaced by a split that drops one bracket.
RECURSIVE cdata_short_loop(_, _, _)
cdata_short_loop(parts, i, result) ==
    IF i > Len(parts) THEN result
    ELSE cdata_short_loop(parts, i + 1,
            IF i = 1 THEN result \o parts[i]
            ELSE result \o Drop(CDATA_SPLIT, 1) \o parts[i])
cdata_short(t) == cdata_short_loop(split(t, CDATA_CLOSE), 1, CDATA_OPEN) \o CDATA_CLOSE

cdata(t) == cdata_loop(split(t, CDATA_CLOSE), 1, TRUE, CDATA_OPEN) \o CDATA_CLOSE

TextAlphabet == {"a", "]", ">"}
Texts == StringsUpTo(TextAlphabet, MaxTextLen)

CdataInit ==
    /\ text \in Texts
    /\ cdataResult = None
    /\ cdataPc = "start"

CdataIdle ==
    /\ text = <<>>
    /\ cdataResult = None
    /\ cdataPc = "off"

CallCdata ==
    /\ cdataPc = "start"
    /\ cdataResult' = cdata(text)
    /\ cdataPc' = "done"
    /\ UNCHANGED <<text, incVars, cmpVars, latestVars, pubVars, idxVars, encVars, discVars, genVars>>

-----------------------------------------------------------------------------
(* Version names: ordering *)

Less == "Less"
Equal == "Equal"
Greater == "Greater"

\* The byte of a character (the model's alphabets are ASCII).
Byte(c) ==
    CASE c = "." -> 46 [] c = "0" -> 48 [] c = "1" -> 49 [] c = "2" -> 50
      [] c = "3" -> 51 [] c = "4" -> 52 [] c = "5" -> 53 [] c = "6" -> 54
      [] c = "7" -> 55 [] c = "8" -> 56 [] c = "9" -> 57 [] c = "a" -> 97
      [] c = "b" -> 98

\* str's partial_cmp: the lexicographic order of the bytes, always Some.
RECURSIVE partial_cmp(_, _)
partial_cmp(part_a, part_b) ==
    IF part_a = <<>> /\ part_b = <<>> THEN Equal
    ELSE IF part_a = <<>> THEN Less
    ELSE IF part_b = <<>> THEN Greater
    ELSE IF Byte(Head(part_a)) < Byte(Head(part_b)) THEN Less
    ELSE IF Byte(Head(part_a)) > Byte(Head(part_b)) THEN Greater
    ELSE partial_cmp(Tail(part_a), Tail(part_b))

DOT == <<".">>

\* Mutant: a name with more segments is Less, whichever side it is on.
RECURSIVE zip_longest_loop_short(_, _, _)
zip_longest_loop_short(parts_a, parts_b, i) ==
    IF i > Len(parts_a) /\ i > Len(parts_b) THEN Equal
    ELSE IF i > Len(parts_b) THEN Less
    ELSE IF i > Len(parts_a) THEN Less
    ELSE LET order == partial_cmp(parts_a[i], parts_b[i])
         IN  IF order = Equal THEN zip_longest_loop_short(parts_a, parts_b, i + 1)
             ELSE order

\* The loop over split('.').zip_longest(split('.')), from entry i on.
RECURSIVE zip_longest_loop(_, _, _)
zip_longest_loop(parts_a, parts_b, i) ==
    IF i > Len(parts_a) /\ i > Len(parts_b) THEN Equal
    ELSE IF i > Len(parts_b) THEN Greater     \* EitherOrBoth::Left
    ELSE IF i > Len(parts_a) THEN Less        \* EitherOrBoth::Right
    ELSE LET order == partial_cmp(parts_a[i], parts_b[i])
         IN  IF order = Equal THEN zip_longest_loop(parts_a, parts_b, i + 1)
             ELSE order

\* Version::compare_version_names
compare_version_names(a, b) == zip_longest_loop(split(a, DOT), split(b, DOT), 1)

\* Mutant: the segments are compared by length first, as numbers would be.
max_by_closure_numeric(a, b) ==
    LET parts_a == split(a, DOT)
        parts_b == split(b, DOT)
        common  == {i \in 1..Len(parts_a) : i <= Len(parts_b) /\ parts_a[i] # parts_b[i]}
    IN  IF common = {}
        THEN zip_longest_loop(parts_a, parts_b, 1)
        ELSE LET i == Min(common)
             IN  IF Len(parts_a[i]) < Len(parts_b[i]) THEN Less
                 ELSE IF Len(parts_a[i]) > Len(parts_b[i]) THEN Greater
                 ELSE partial_cmp(parts_a[i], parts_b[i])

\* The closure find_latest_version hands to max_by.
max_by_closure(a, b) == zip_longest_loop(split(a, DOT), split(b, DOT), 1)

NoneOption == [some |-> FALSE, value |-> <<>>]
Some(v) == [some |-> TRUE, value |-> v]

\* Iterator::max_by: the fold keeps the later item unless the earlier one is Greater.
RECURSIVE max_by(_, _, _)
max_by(items, i, best) ==
    IF i > Len(items) THEN best
    ELSE max_by(items, i + 1,
                IF max_by_closure(best, items[i]) = Greater THEN best ELSE items[i])

find_latest_version(items) ==
    IF items = <<>> THEN NoneOption
    ELSE Some(max_by(items, 2, items[1]))

CmpAlphabet == {"1", "9", "."}
ExampleVersions ==
    { <<"0", ".", "1", ".", "1", "5">>,
      <<"0", ".", "1", ".", "1", "5", "b">>,
      <<"0", ".", "1", ".", "1">>,
      <<"0", ".", "1">>,
      <<"0", ".", "1", ".", "0">>,
      <<"9">>,
      <<"1", "0">>,
      <<"0", ".", "9">>,
      <<"0", ".", "1", "0">> }
CmpStrings == StringsUpTo(CmpAlphabet, MaxCmpLen) \cup ExampleVersions

CmpNone == [ab |-> None, ba |-> None, closure_ab |-> None]

CmpInit ==
    /\ version_a \in CmpStrings
    /\ version_b \in CmpStrings
    /\ cmpResult = CmpNone

CmpIdle ==
    /\ version_a = <<>>
    /\ version_b = <<>>
    /\ cmpResult = CmpNone

CallCompare ==
    /\ cmpResult = CmpNone
    /\ cmpResult' = [ab |-> compare_version_names(version_a, version_b),
                     ba |-> compare_version_names(version_b, version_a),
                     closure_ab |-> max_by_closure(version_a, version_b)]
    /\ UNCHANGED <<version_a, version_b, cdataVars, incVars, latestVars, pubVars, idxVars, encVars, discVars, genVars>>

LatestNone == [some |-> FALSE, value |-> <<None>>]

LatestInit ==
    /\ versions \in StringsUpTo(ExampleVersions, MaxVersions)
    /\ latestResult = LatestNone

LatestIdle ==
    /\ versions = <<>>
    /\ latestResult = LatestNone

CallFindLatest ==
    /\ latestResult = LatestNone
    /\ latestResult' = find_latest_version(versions)
    /\ UNCHANGED <<versions, cdataVars, incVars, cmpVars, pubVars, idxVars, encVars, discVars, genVars>>

-----------------------------------------------------------------------------
(* Version names: increment *)

Digits == {"0", "1", "2", "3", "4", "5", "6", "7", "8", "9"}

is_ascii_digit(c) == c \in Digits

\* The loop over text.chars().rev() that collects the trailing digits, and the
\* reversal that puts them back in order.
RECURSIVE trailing_digits(_)
trailing_digits(t) ==
    IF t = <<>> \/ ~is_ascii_digit(t[Len(t)]) THEN <<>>
    ELSE Append(trailing_digits(SubSeq(t, 1, Len(t) - 1)), t[Len(t)])

RECURSIVE StripZeros(_)
StripZeros(d) == IF d # <<>> /\ Head(d) = "0" THEN StripZeros(Tail(d)) ELSE d

\* u32::MAX, 2^32 - 1, in decimal.
U32_MAX == <<"4", "2", "9", "4", "9", "6", "7", "2", "9", "5">>

\* Whether a digit string without leading zeros is a value above u32::MAX.
AboveU32(d) ==
    \/ Len(d) > Len(U32_MAX)
    \/ Len(d) = Len(U32_MAX) /\ partial_cmp(d, U32_MAX) = Greater

NextDigit(c) ==
    CASE c = "0" -> "1" [] c = "1" -> "2" [] c = "2" -> "3" [] c = "3" -> "4"
      [] c = "4" -> "5" [] c = "5" -> "6" [] c = "6" -> "7" [] c = "7" -> "8"
      [] c = "8" -> "9"

\* The decimal digits of n + 1, for n given by its digits without leading zeros.
RECURSIVE DecimalSucc(_)
DecimalSucc(d) ==
    IF d = <<>> THEN <<"1">>
    ELSE LET last  == d[Len(d)]
             front == SubSeq(d, 1, Len(d) - 1)
         IN  IF last = "9" THEN Append(DecimalSucc(front), "0")
             ELSE Append(front, NextDigit(last))

Ok(v) == [tag |-> "Ok", value |-> v]
ErrUnknownVersionFormat == [tag |-> "UnknownVersionFormat", value |-> <<>>]
Panic == [tag |-> "Panic", value |-> <<>>]

\* suffix.parse::<u32>().unwrap() + 1, rendered by format!: the outcomes a
\* build can produce.  The parse fails above u32::MAX and unwrap panics; the
\* addition overflows at u32::MAX, which panics with overflow checks (debug)
\* and wraps to 0 without them (release).
incremented_suffix(suffix) ==
    LET n == StripZeros(suffix)
    IN  IF AboveU32(n) THEN {Panic}
        ELSE IF n = U32_MAX THEN {Panic, Ok(<<"0">>)}
        ELSE {Ok(DecimalSucc(n))}

\* increment_version: the set of outcomes of a call.
increment_version(t) ==
    LET suffix == trailing_digits(t)
    IN  IF suffix = <<>> THEN {ErrUnknownVersionFormat}
        ELSE LET prefix_len == Len(t) - Len(suffix)
             IN  {IF r.tag = "Ok" THEN Ok(SubSeq(t, 1, prefix_len) \o r.value) ELSE r :
                      r \in incremented_suffix(suffix)}

VerAlphabet == {"0", "1", "9", ".", "a"}
LongVersions ==
    { <<"4", "2", "9", "4", "9", "6", "7", "2", "9", "4">>,
      <<"4", "2", "9", "4", "9", "6", "7", "2", "9", "5">>,
      <<"4", "2", "9", "4", "9", "6", "7", "2", "9", "6">>,
      <<"1", ".", "4", "2", "9", "4", "9", "6", "7", "2", "9", "5">>,
      <<"2", "0", "2", "4", "0", "1", "0", "1", "1", "2", "0", "0", "0", "0">>,
      <<"0", ".", "0", "0", "9", "9">> }
IncTexts == StringsUpTo(VerAlphabet, MaxVerLen) \cup ExampleVersions \cup LongVersions

IncNone == [tag |-> None, value |-> <<>>]

IncInit ==
    /\ incText \in IncTexts
    /\ incResult = IncNone

IncIdle ==
    /\ incText = <<>>
    /\ incResult = IncNone

CallIncrement ==
    /\ incResult = IncNone
    /\ \E r \in increment_version(incText) : incResult' = r
    /\ UNCHANGED <<incText, cdataVars, cmpVars, latestVars, pubVars, idxVars, encVars, discVars, genVars>>

-----------------------------------------------------------------------------
(* publish *)

Err(name) == [tag |-> name, value |-> <<>>]

\* sanitize_filename::sanitize_with_options with windows: true and an empty
\* replacement, on the model's characters: the illegal '/' is removed, then a
\* name of dots only, then trailing dots.
RECURSIVE strip_trailing_dots(_)
strip_trailing_dots(s) ==
    IF s # <<>> /\ s[Len(s)] = "." THEN strip_trailing_dots(SubSeq(s, 1, Len(s) - 1)) ELSE s

IsSlash(c) == c = "/"
NotSlash(c) == ~IsSlash(c)

sanitize(s) == strip_trailing_dots(SelectSeq(s, NotSlash))

\* Package::get_version_paths: the subdirectories that hold a version.toml.
get_version_paths(dirs) == {n \in DOMAIN dirs : dirs[n].toml}

\* The orders in which a HashSet may hand out its items.
Orders(S) == {seq \in [1..Cardinality(S) -> S] : Items(seq) = S}

V_0_0_1 == <<"0", ".", "0", ".", "1">>

\* The pairs of version names that the closure of max_by finds Greater.
GreaterPairs(S) ==
    UNION {{<<a, b>> : b \in {c \in S : max_by_closure(a, c) = Greater}} : a \in S}

\* Iterator::max_by over a HashSet, which may hand out its items in any order:
\* the pairs <<T, v>> where T is n of the items and v is what the fold returns
\* for some order of T, the item that comes last being kept unless the best
\* of the others is Greater.
RECURSIVE max_by_of_subsets(_, _, _)
max_by_of_subsets(S, greater, n) ==
    IF n <= 1 THEN {<<{v}, v>> : v \in S}
    ELSE With(max_by_of_subsets(S, greater, n - 1), LAMBDA shorter :
         UNION {UNION {{<<T, IF <<best, last>> \in greater THEN best ELSE last>> :
                          best \in {v \in T \ {last} : <<T \ {last}, v>> \in shorter}} :
                       last \in T} :
                T \in {U \in SUBSET S : Cardinality(U) = n}})

\* find_latest_version(versions.iter()) for the orders of the HashSet.
find_latest_version_of_set(existing) ==
    IF existing = {} THEN {NoneOption}
    ELSE With(GreaterPairs(existing), LAMBDA greater :
         With(max_by_of_subsets(existing, greater, Cardinality(existing)), LAMBDA folds :
              {Some(v) : v \in {w \in existing : <<existing, w>> \in folds}}))

\* Mutant: the first version of a package is "0.1.0".
select_version_other_first(version, existing) ==
    IF version.some
    THEN IF version.value \in existing THEN {Err("VersionAlreadyExists")}
         ELSE {Ok(version.value)}
    ELSE UNION { IF latest_version.some THEN increment_version(latest_version.value)
                 ELSE {Ok(<<"0", ".", "1", ".", "0">>)} :
                 latest_version \in find_latest_version_of_set(existing) }

\* The match on `version` that gives new_version: the outcomes of the
\* selection among the existing version names.
select_version(version, existing) ==
    IF version.some
    THEN IF version.value \in existing THEN {Err("VersionAlreadyExists")}
         ELSE {Ok(version.value)}
    ELSE UNION { IF latest_version.some THEN increment_version(latest_version.value)
                 ELSE {Ok(V_0_0_1)} : latest_version \in find_latest_version_of_set(existing) }

EmptyDir == [toml |-> FALSE, files |-> {}]

\* The files under `path`.
SourceFiles(kind) == IF kind = "dir" THEN {"f1", "f2"} ELSE IF kind = "file" THEN {"f1"} ELSE {}

NoArgs == [new |-> FALSE, identifierOk |-> TRUE, version |-> NoneOption]
NoTree == [pkgDir |-> FALSE, pkgToml |-> FALSE, verDirs |-> <<>>]

Tree == [pkgDir |-> pkgDir, pkgToml |-> pkgToml, verDirs |-> verDirs]

\* The version arguments a call may give.
VersionArgs ==
    {NoneOption, Some(<<"2">>), Some(<<"0", ".", "9">>), Some(<<"a", "/", "b">>)}

PublishArgs == [new : BOOLEAN, identifierOk : BOOLEAN, version : VersionArgs]

\* The version directories a package may start with.
InitialVersionNames == {<<"0", ".", "9">>, <<"0", ".", "1", "a">>}
DirStates == {[toml |-> TRUE, files |-> {"f1"}], [toml |-> FALSE, files |-> {}]}
InitialVerDirs ==
    UNION {[names -> DirStates] : names \in SUBSET InitialVersionNames}

PubInit ==
    /\ repoToml \in BOOLEAN
    /\ srcKind \in {"missing", "file", "dir"}
    /\ pkgDir \in BOOLEAN
    /\ pkgToml \in BOOLEAN
    /\ pkgToml => pkgDir
    /\ verDirs \in InitialVerDirs
    /\ DOMAIN verDirs # {} => pkgDir
    /\ pubPc = "idle"
    /\ pubArgs = NoArgs
    /\ new_version = <<>>
    /\ copied = {}
    /\ pubError = None
    /\ pubCount = 0
    /\ treeAtCall = NoTree

PubIdle ==
    /\ repoToml = FALSE
    /\ srcKind = "missing"
    /\ pkgDir = FALSE
    /\ pkgToml = FALSE
    /\ verDirs = <<>>
    /\ pubPc = "off"
    /\ pubArgs = NoArgs
    /\ new_version = <<>>
    /\ copied = {}
    /\ pubError = None
    /\ pubCount = 0
    /\ treeAtCall = NoTree

PubFail(error) ==
    /\ pubPc' = "failed"
    /\ pubError' = error
    /\ new_version' = <<>>
    /\ copied' = {}

\* Commands::Publish from its checks to the choice of new_version, for a call
\* with arguments from `calls`, the `bound` capping the number of publishes.
PublishSelectFrom(calls, bound) ==
    /\ pubPc = "idle"
    /\ pubCount < bound
    /\ \E args \in calls :
        /\ pubArgs' = args
        /\ treeAtCall' = Tree
        /\ IF ~repoToml
           THEN PubFail("RepositoryDoesNotExist") /\ UNCHANGED <<pkgDir, pkgToml>>
           ELSE IF srcKind = "missing"
           THEN PubFail("SourceDoesNotExist") /\ UNCHANGED <<pkgDir, pkgToml>>
           ELSE IF ~args.identifierOk
           THEN PubFail("InvalidPackageName") /\ UNCHANGED <<pkgDir, pkgToml>>
           ELSE IF args.version.some /\ sanitize(args.version.value) # args.version.value
           THEN PubFail("InvalidPackageVersion") /\ UNCHANGED <<pkgDir, pkgToml>>
           ELSE IF args.new /\ pkgToml
           THEN PubFail("PackageAlreadyExists") /\ UNCHANGED <<pkgDir, pkgToml>>
           ELSE IF ~args.new /\ ~pkgToml
           THEN PubFail("PackageDoesNotExist") /\ UNCHANGED <<pkgDir, pkgToml>>
           ELSE /\ pkgDir' = TRUE
                /\ pkgToml' = TRUE
                /\ \E r \in select_version(args.version, get_version_paths(verDirs)) :
                      IF r.tag = "Ok"
                      THEN /\ pubPc' = "selected"
                           /\ new_version' = r.value
                           /\ copied' = {}
                           /\ pubError' = None
                      ELSE PubFail(r.tag)
    /\ UNCHANGED <<repoToml, srcKind, verDirs, pubCount>>
    /\ UNCHANGED <<cdataVars, incVars, cmpVars, latestVars, idxVars, encVars, discVars, genVars>>

PublishSelect == PublishSelectFrom(PublishArgs, MaxPublishes)

\* The calls that give no version.
AutoPublishArgs == [new : BOOLEAN, identifierOk : {TRUE}, version : {NoneOption}]

\* A publish without a version argument.
AutoPublishSelect == PublishSelectFrom(AutoPublishArgs, MaxAutoPublishes)

\* fs::create_dir(&ver_path), unless the directory exists.
PublishCreateDir ==
    /\ pubPc = "selected"
    /\ verDirs' = IF new_version \in DOMAIN verDirs THEN verDirs
                  ELSE [n \in DOMAIN verDirs \cup {new_version} |->
                            IF n = new_version THEN EmptyDir ELSE verDirs[n]]
    /\ pubPc' = "copying"
    /\ pubCount' = pubCount + 1
    /\ UNCHANGED <<repoToml, srcKind, pkgDir, pkgToml, pubArgs, new_version, copied, pubError,
                   treeAtCall>>
    /\ UNCHANGED <<cdataVars, incVars, cmpVars, latestVars, idxVars, encVars, discVars, genVars>>

\* The files of `path` still to be copied; a copy goes over a file of the
\* same name that the directory holds.
Missing == SourceFiles(srcKind) \ copied

\* One fs::copy of copy_dir_all (or the single fs::copy of a file source).
PublishCopy ==
    /\ pubPc = "copying"
    /\ \E f \in Missing :
          /\ verDirs' = [verDirs EXCEPT ![new_version].files = @ \cup {f}]
          /\ copied' = copied \cup {f}
    /\ UNCHANGED <<repoToml, srcKind, pkgDir, pkgToml, pubPc, pubArgs, new_version, pubError,
                   pubCount, treeAtCall>>
    /\ UNCHANGED <<cdataVars, incVars, cmpVars, latestVars, idxVars, encVars, discVars, genVars>>

\* A copy fails with an io::Error and `?` returns it.
PublishCopyFails ==
    /\ pubPc = "copying"
    /\ Missing # {}
    /\ pubPc' = "failed"
    /\ pubError' = "Io"
    /\ UNCHANGED <<treeVars, pubArgs, new_version, copied, pubCount, treeAtCall>>
    /\ UNCHANGED <<cdataVars, incVars, cmpVars, latestVars, idxVars, encVars, discVars, genVars>>

\* The copy is over: fs::write(&ver_config_path, config_text).
PublishWriteConfig ==
    /\ pubPc = "copying"
    /\ Missing = {}
    /\ verDirs' = [verDirs EXCEPT ![new_version].toml = TRUE]
    /\ pubPc' = "done"
    /\ UNCHANGED <<repoToml, srcKind, pkgDir, pkgToml, pubArgs, new_version, copied, pubError,
                   pubCount, treeAtCall>>
    /\ UNCHANGED <<cdataVars, incVars, cmpVars, latestVars, idxVars, encVars, discVars, genVars>>

\* main returns; the next command starts from the tree it left.
PublishReturn ==
    /\ pubPc \in {"done", "failed"}
    /\ pubPc' = "idle"
    /\ pubArgs' = NoArgs
    /\ new_version' = <<>>
    /\ copied' = {}
    /\ pubError' = None
    /\ treeAtCall' = NoTree
    /\ UNCHANGED <<treeVars, pubCount>>
    /\ UNCHANGED <<cdataVars, incVars, cmpVars, latestVars, idxVars, encVars, discVars, genVars>>

PublishNext ==
    \/ PublishSelect
    \/ PublishCreateDir
    \/ PublishCopy
    \/ PublishCopyFails
    \/ PublishWriteConfig
    \/ PublishReturn

\* A repository whose package, if it is there, has no version directory.
AutoPubInit ==
    /\ repoToml = TRUE
    /\ srcKind \in {"file", "dir"}
    /\ pkgToml \in BOOLEAN
    /\ pkgDir = pkgToml
    /\ verDirs = <<>>
    /\ pubPc = "idle"
    /\ pubArgs = NoArgs
    /\ new_version = <<>>
    /\ copied = {}
    /\ pubError = None
    /\ pubCount = 0
    /\ treeAtCall = NoTree

AutoPublishNext ==
    \/ AutoPublishSelect
    \/ PublishCreateDir
    \/ PublishCopy
    \/ PublishCopyFails
    \/ PublishWriteConfig
    \/ PublishReturn

-----------------------------------------------------------------------------
(* Entrypoints *)

\* ActionListSection, by its token.
ActionListSection ==
    {"main", "midi_editor", "midi_inlineeditor", "midi_eventlisteditor", "mediaexplorer"}

\* PackageType, by its token.
PackageType ==
    {"script", "extension", "effect", "data", "theme", "langpack", "webinterface",
     "projecttpl", "tracktpl", "midinotenames", "autoitem"}

\* The tokens globset parses a glob into, for globs of literals, '*' and '?'.
glob_tokens(pattern) ==
    [i \in 1..Len(pattern) |->
        IF pattern[i] = "*" THEN [kind |-> "ZeroOrMore", c |-> "*"]
        ELSE IF pattern[i] = "?" THEN [kind |-> "Any", c |-> "?"]
        ELSE [kind |-> "Literal", c |-> pattern[i]]]

\* Mutant: the glob is built with globset's default, literal_separator(false).
glob_build_default(pattern) ==
    [glob |-> pattern, tokens |-> glob_tokens(pattern), literal_separator |-> FALSE]

\* GlobBuilder::new(pattern).literal_separator(true).build()
glob_build(pattern) ==
    [glob |-> pattern, tokens |-> glob_tokens(pattern), literal_separator |-> TRUE]

\* Whether the regex of the tokens matches the whole path: '?' is one
\* character and '*' any run of characters, none a '/' under literal_separator.
RECURSIVE tokens_match(_, _, _)
tokens_match(tokens, path, literal_separator) ==
    IF tokens = <<>> THEN path = <<>>
    ELSE LET t == Head(tokens)
             wild == path # <<>> /\ (literal_separator => ~IsSlash(Head(path)))
         IN  CASE t.kind = "Literal" ->
                    /\ path # <<>>
                    /\ Head(path) = t.c
                    /\ tokens_match(Tail(tokens), Tail(path), literal_separator)
               [] t.kind = "Any" ->
                    wild /\ tokens_match(Tail(tokens), Tail(path), literal_separator)
               [] t.kind = "ZeroOrMore" ->
                    \/ tokens_match(Tail(tokens), path, literal_separator)
                    \/ wild /\ tokens_match(tokens, Tail(path), literal_separator)

\* GlobSet::is_empty and GlobSet::matches (the indices of the matching globs).
globset_is_empty(set) == Len(set) = 0
globset_matches(set, path) ==
    {i \in 1..Len(set) : tokens_match(set[i].tokens, path, set[i].literal_separator)}

\* build_entrypoints: one GlobSet per section of the map.
build_entrypoints(patterns_map) ==
    [section \in DOMAIN patterns_map |->
        [i \in 1..Len(patterns_map[section]) |-> glob_build(patterns_map[section][i])]]

\* Package::entrypoints
package_entrypoints(config_entrypoints) ==
    IF config_entrypoints.some THEN Some(build_entrypoints(config_entrypoints.value))
    ELSE NoneOption

\* Mutant: the version's map is laid over the package's map.
version_entrypoints_merged(ver_config_entrypoints, pkg_config_entrypoints) ==
    IF ~ver_config_entrypoints.some THEN package_entrypoints(pkg_config_entrypoints)
    ELSE IF ~pkg_config_entrypoints.some
    THEN Some(build_entrypoints(ver_config_entrypoints.value))
    ELSE LET v == build_entrypoints(ver_config_entrypoints.value)
             k == build_entrypoints(pkg_config_entrypoints.value)
         IN  Some([section \in DOMAIN v \cup DOMAIN k |->
                      IF section \in DOMAIN v THEN v[section] ELSE k[section]])

\* Version::entrypoints
version_entrypoints(ver_config_entrypoints, pkg_config_entrypoints) ==
    LET entrypoints == IF ver_config_entrypoints.some
                       THEN Some(build_entrypoints(ver_config_entrypoints.value))
                       ELSE NoneOption
    IN  IF entrypoints.some THEN entrypoints
        ELSE package_entrypoints(pkg_config_entrypoints)

SectionsOk(set) == [tag |-> "Ok", value |-> set]
SectionsErr(name) == [tag |-> name, value |-> {}]

\* Mutant: a package that is not a script is refused only when a pattern matches.
sections_init_on_match(type, entrypoints, relpath_to_ver) ==
    IF type = "script" /\ ~entrypoints.some
    THEN SectionsErr("NoEntrypointsDefinedForScriptPackage")
    ELSE IF type = "script"
            /\ \A section \in DOMAIN entrypoints.value :
                  globset_is_empty(entrypoints.value[section])
    THEN SectionsErr("NoEntrypointsDefinedForScriptPackage")
    ELSE IF type # "script" /\ entrypoints.some
            /\ \E section \in DOMAIN entrypoints.value :
                  globset_matches(entrypoints.value[section], relpath_to_ver) # {}
    THEN SectionsErr("EntrypointsOnlyAllowedInScriptPackages")
    ELSE SectionsOk(IF entrypoints.some
                    THEN {section \in DOMAIN entrypoints.value :
                             globset_matches(entrypoints.value[section], relpath_to_ver) # {}}
                    ELSE {})

\* The closure Source::sections initialises its cell with.
sections_init(type, entrypoints, relpath_to_ver) ==
    IF type = "script" /\ ~entrypoints.some
    THEN SectionsErr("NoEntrypointsDefinedForScriptPackage")
    ELSE IF type = "script"
            /\ \A section \in DOMAIN entrypoints.value :
                  globset_is_empty(entrypoints.value[section])
    THEN SectionsErr("NoEntrypointsDefinedForScriptPackage")
    ELSE IF type # "script" /\ entrypoints.some
            /\ \E section \in DOMAIN entrypoints.value :
                  ~globset_is_empty(entrypoints.value[section])
    THEN SectionsErr("EntrypointsOnlyAllowedInScriptPackages")
    ELSE SectionsOk(IF entrypoints.some
                    THEN {section \in DOMAIN entrypoints.value :
                             globset_matches(entrypoints.value[section], relpath_to_ver) # {}}
                    ELSE {})

-----------------------------------------------------------------------------
(* Version::element *)

\* UrlTemplateValueProvider::get_value: whether the key has a value.
get_value(key, git) ==
    IF key = "git_commit" THEN git
    ELSE IF key = "relpath" THEN TRUE
    ELSE FALSE

\* Source::url: the render fails at a key without a value.
url(pattern, git) ==
    IF \E i \in 1..Len(pattern) : ~get_value(pattern[i], git) THEN "RenderError" ELSE "Ok"

NotCalled == [called |-> FALSE, value |-> NoneOption]

\* No package is being walked.
MemoOff == [pc |-> "off"]

\* The loop `for source in sources.iter()` of Version::element from item i on:
\* each Source::element renders the URL, then fills the source's cell.
RECURSIVE source_elements(_, _, _, _)
source_elements(order, i, cells, called) ==
    IF i > Len(order) THEN [tag |-> "Ok", cells |-> cells, called |-> called]
    ELSE IF url(url_pattern, gitOk) # "Ok"
    THEN [tag |-> url(url_pattern, gitOk), cells |-> cells, called |-> called]
    ELSE LET r == sections_init(pkg_type,
                                version_entrypoints(verEntrypoints, pkgEntrypoints),
                                order[i])
         IN  IF r.tag # "Ok" THEN [tag |-> r.tag, cells |-> cells, called |-> TRUE]
             ELSE source_elements(order, i + 1,
                    [p \in DOMAIN cells \cup {order[i]} |->
                        IF p = order[i] THEN r.value ELSE cells[p]],
                    TRUE)

\* Mutant: a script package passes when its sources match nothing.
script_check_skipped(type, cells) == "Ok"

\* The check after the sources: a script package needs a source with a section.
script_check(type, cells) ==
    IF type = "script" /\ \A p \in DOMAIN cells : cells[p] = {}
    THEN "NoEntrypointsFoundForScriptPackage"
    ELSE "Ok"

\* Version::element for the sources in the order discover_sources gave them.
version_element(order) ==
    IF order = <<>> THEN [tag |-> "NoSourcesFound", cells |-> <<>>, called |-> FALSE]
    ELSE LET r == source_elements(order, 1, <<>>, FALSE)
         IN  IF r.tag # "Ok" THEN r
             ELSE [r EXCEPT !.tag = script_check(pkg_type, r.cells)]

P_SCRIPTS_LUA == <<"s", "c", "r", "i", "p", "t", "s", "/", "*", ".", "l", "u", "a">>
P_LUA == <<"*", ".", "l", "u", "a">>
F_SCRIPTS_FOO == <<"s", "c", "r", "i", "p", "t", "s", "/", "f", "o", "o", ".", "l", "u", "a">>
F_SCRIPTS_SUB_FOO == <<"s", "c", "r", "i", "p", "t", "s", "/", "s", "u", "b", "/", "f", "o", "o", ".", "l", "u", "a">>
F_MAIN == <<"m", "a", "i", "n", ".", "l", "u", "a">>

Map1(section, patterns) == [s \in {section} |-> patterns]
Map2(patterns_main, patterns_midi) ==
    [s \in {"main", "midi_editor"} |-> IF s = "main" THEN patterns_main ELSE patterns_midi]

\* The entrypoints a package.toml or version.toml may give.
EntrypointConfigs ==
    { NoneOption,
      Some(<<>>),
      Some(Map1("main", <<>>)),
      Some(Map1("main", <<P_SCRIPTS_LUA>>)),
      Some(Map1("main", <<P_LUA>>)),
      Some(Map1("mediaexplorer", <<P_LUA, P_SCRIPTS_LUA>>)),
      Some(Map2(<<>>, <<>>)),
      Some(Map2(<<>>, <<P_LUA>>)),
      Some(Map2(<<P_SCRIPTS_LUA>>, <<P_LUA>>)) }

FilePool == {F_SCRIPTS_FOO, F_SCRIPTS_SUB_FOO, F_MAIN}

\* The url patterns and the state of git a repository may have.
UrlConfigs ==
    { <<<<"relpath">>, TRUE>>, <<<<"git_commit", "relpath">>, TRUE>>,
      <<<<"git_commit", "relpath">>, FALSE>>, <<<<"relpath", "foo">>, TRUE>> }

Changelogs == {NoneOption, Some(<<"a", "]", "]", ">">>)}

\* Globs of literals and single stars, and the normalized relative paths.
GlobAlphabet == {"s", "/", "*"}
PathAlphabet == {"s", "/"}
Globs == {g \in StringsUpTo(GlobAlphabet, MaxPatternLen) : ~Contains(g, <<"*", "*">>)}
RelPaths ==
    {f \in StringsUpTo(PathAlphabet, MaxPathLen) :
        /\ f # <<>>
        /\ ~IsSlash(f[1])
        /\ ~IsSlash(f[Len(f)])
        /\ ~Contains(f, <<"/", "/">>)}

IdxStart ==
    /\ idxResult = None
    /\ idxEntrypoints = NotCalled
    /\ srcSections = <<>>
    /\ idxChangelog = NoneOption
    /\ memo = MemoOff

\* A version of a package with entrypoints and files from the pools.
IdxInitPools ==
    /\ pkg_type \in {"script", "extension", "data"}
    /\ pkgEntrypoints \in EntrypointConfigs
    /\ verEntrypoints \in EntrypointConfigs
    /\ sourcePaths \in {S \in SUBSET FilePool : Cardinality(S) <= MaxSources}
    /\ \E u \in UrlConfigs : url_pattern = u[1] /\ gitOk = u[2]
    /\ changelog \in Changelogs
    /\ IdxStart

\* A version with one file and one glob, both from the enumerated strings.
IdxInitGlobs ==
    /\ pkg_type = "script"
    /\ pkgEntrypoints = NoneOption
    /\ \E g \in Globs : verEntrypoints = Some(Map1("main", <<g>>))
    /\ \E f \in RelPaths : sourcePaths = {f}
    /\ url_pattern = <<"relpath">>
    /\ gitOk = TRUE
    /\ changelog = NoneOption
    /\ IdxStart

IdxInit == IdxInitPools \/ IdxInitGlobs

IdxOff ==
    /\ pkg_type = "script"
    /\ pkgEntrypoints = NoneOption
    /\ verEntrypoints = NoneOption
    /\ sourcePaths = {}
    /\ url_pattern = <<>>
    /\ gitOk = FALSE
    /\ changelog = NoneOption
    /\ idxResult = "off"
    /\ idxEntrypoints = NotCalled
    /\ srcSections = <<>>
    /\ idxChangelog = NoneOption

IdxIdle == IdxOff /\ memo = MemoOff

VersionElement ==
    /\ idxResult = None
    /\ \E order \in Orders(sourcePaths) :
          LET r == version_element(order)
          IN  /\ idxResult' = r.tag
              /\ srcSections' = r.cells
              /\ idxEntrypoints' =
                    IF r.called
                    THEN [called |-> TRUE,
                          value |-> version_entrypoints(verEntrypoints, pkgEntrypoints)]
                    ELSE NotCalled
              /\ idxChangelog' = IF r.tag = "Ok" /\ changelog.some
                                 THEN Some(cdata(changelog.value))
                                 ELSE NoneOption
    /\ UNCHANGED <<idxConfig, memo>>
    /\ UNCHANGED <<cdataVars, incVars, cmpVars, latestVars, pubVars, encVars, discVars, genVars>>

-----------------------------------------------------------------------------
(* Relative paths *)

SLASH == <<"/">>
CUR_STR == <<".">>
PARENT_STR == <<".", ".">>

\* RelativePath::components: the non-empty pieces between the slashes; the
\* piece "." is Component::CurDir, ".." is ParentDir, any other is Normal.
components(path) == SelectSeq(split(path, SLASH), LAMBDA piece : piece # <<>>)

IsNormal(component) == component # CUR_STR /\ component # PARENT_STR

\* RelativePathBuf::push on a buffer kept as its pieces, and the String of it.
RECURSIVE join(_)
join(pieces) ==
    IF pieces = <<>> THEN <<>>
    ELSE IF Len(pieces) = 1 THEN pieces[1]
    ELSE pieces[1] \o SLASH \o join(Tail(pieces))

\* relative_traversal: '.' is dropped, '..' pops the last piece of the buffer
\* unless the buffer is empty or ends in '..', where it is pushed.
RECURSIVE relative_traversal(_, _)
relative_traversal(buf, comps) ==
    IF comps = <<>> THEN buf
    ELSE LET c == Head(comps)
         IN  IF c = CUR_STR THEN relative_traversal(buf, Tail(comps))
             ELSE IF c = PARENT_STR
             THEN IF buf = <<>> \/ buf[Len(buf)] = PARENT_STR
                  THEN relative_traversal(Append(buf, PARENT_STR), Tail(comps))
                  ELSE relative_traversal(SubSeq(buf, 1, Len(buf) - 1), Tail(comps))
             ELSE relative_traversal(Append(buf, c), Tail(comps))

\* RelativePath::normalize, as a String.
normalize(path) == join(relative_traversal(<<>>, components(path)))

-----------------------------------------------------------------------------
(* url_encode_path *)

\* The printable ASCII characters, from the space (byte 32) to the tilde; the
\* double quote, the backslash and the backtick are written by their names.
ASCII ==
    <<
       " ", "!", "quote", "#", "$", "%", "&", "'", "(", ")", "*", "+", ",", "-", ".", "/",
       "0", "1", "2", "3", "4", "5", "6", "7", "8", "9", ":", ";", "<", "=", ">", "?",
       "@", "A", "B", "C", "D", "E", "F", "G", "H", "I", "J", "K", "L", "M", "N", "O",
       "P", "Q", "R", "S", "T", "U", "V", "W", "X", "Y", "Z", "[", "backslash", "]", "^", "_",
       "backtick", "a", "b", "c", "d", "e", "f", "g", "h", "i", "j", "k", "l", "m", "n", "o",
       "p", "q", "r", "s", "t", "u", "v", "w", "x", "y", "z", "{", "|", "}", "~"
    >>

\* The UTF-8 bytes of a character.
Utf8(c) ==
    IF c = "é" THEN <<195, 169>>
    ELSE <<31 + CHOOSE i \in 1..Len(ASCII) : ASCII[i] = c>>

HexDigits == <<"0", "1", "2", "3", "4", "5", "6", "7", "8", "9", "A", "B", "C", "D", "E", "F">>

\* percent_encode_byte: '%' and the two upper-case hex digits of the byte.
percent_encode_byte(byte) == <<"%", HexDigits[(byte \div 16) + 1], HexDigits[(byte % 16) + 1]>>

is_ascii_alphanumeric(byte) ==
    \/ byte \in 48..57
    \/ byte \in 65..90
    \/ byte \in 97..122

\* AsciiSet::contains for NON_ALPHANUMERIC.
NON_ALPHANUMERIC(byte) == byte < 128 /\ ~is_ascii_alphanumeric(byte)

\* Mutant: the set keeps the slash.
FRAGMENT_with_slash(byte) == NON_ALPHANUMERIC(byte) /\ byte \notin {46, 45, 95}

\* AsciiSet::contains for FRAGMENT: NON_ALPHANUMERIC less '/', '.', '-', '_'.
FRAGMENT(byte) == NON_ALPHANUMERIC(byte) /\ byte \notin {47, 46, 45, 95}

\* utf8_percent_encode(input, FRAGMENT).to_string(): a byte that is not ASCII
\* or is in the set is written as its triple, any other byte as itself.
RECURSIVE utf8_percent_encode(_)
utf8_percent_encode(input) ==
    IF input = <<>> THEN <<>>
    ELSE LET bytes == Utf8(Head(input))
             first == IF Len(bytes) > 1 \/ FRAGMENT(bytes[1])
                      THEN percent_encode_byte(bytes[1])
                      ELSE <<Head(input)>>
             rest  == IF Len(bytes) > 1 THEN percent_encode_byte(bytes[2]) ELSE <<>>
         IN  first \o rest \o utf8_percent_encode(Tail(input))

url_encode_path(path) ==
    LET input == normalize(path)
    IN  utf8_percent_encode(input)

S_A_B_C_LUA == <<"a", " ", "b", "/", "c", ".", "l", "u", "a">>
S_ENCODED_A_B_C_LUA == <<"a", "%", "2", "0", "b", "/", "c", ".", "l", "u", "a">>

EncodeAlphabet == {"a", " ", "/", ".", "é"}
EncodeExamples ==
    { S_A_B_C_LUA,
      <<"Z", "_", "9", "/", "0", ".", "1", "/", "A", "-", "z", " ", "%", "~", ".", "l", "u", "a">>,
      <<".", "/", "a", "/", ".", ".", "/", "b", " ", "c">> }
EncodePaths == StringsUpTo(EncodeAlphabet, MaxEncodeLen) \cup EncodeExamples

EncInit ==
    /\ encPath \in EncodePaths
    /\ encResult = <<>>

EncIdle ==
    /\ encPath = <<>>
    /\ encResult = <<>>

\* A call of url_encode_path(path); encResult keeps what each call returned.
CallUrlEncodePath ==
    /\ Len(encResult) < MaxEncodeCalls
    /\ encResult' = Append(encResult, url_encode_path(encPath))
    /\ UNCHANGED <<encPath, cdataVars, incVars, cmpVars, latestVars, pubVars, idxVars, discVars, genVars>>

-----------------------------------------------------------------------------
(* Config files *)

\* PackageType::from_str and ActionListSection::from_str: the token is one of
\* the fixed strings, compared exactly, or the parse is an error.
PackageType_from_str(s) ==
    IF s \in PackageType THEN Ok(s) ELSE Err("InvalidPackageType")

ActionListSection_from_str(s) ==
    IF s \in ActionListSection THEN Ok(s) ELSE Err("InvalidActionListSection")

\* Deserialize of Option<HashMap<ActionListSection, Vec<..>>>: every key parses.
deserialize_entrypoints(entrypoints) ==
    IF ~entrypoints.some THEN Ok(NoneOption)
    ELSE IF \E key \in DOMAIN entrypoints.value : ActionListSection_from_str(key).tag # "Ok"
    THEN Err("InvalidActionListSection")
    ELSE Ok(entrypoints)

\* fs::read_to_string of a config file followed by toml::from_str.
read_toml(toml) ==
    IF toml.state \in {"absent", "unreadable"} THEN Err("Io")
    ELSE IF toml.state = "syntax_error" THEN Err("Toml")
    ELSE Ok(toml)

\* Package::read: PackageConfig is deserialized from package.toml.
Package_read(entry) ==
    LET file == read_toml(entry.toml)
    IN  IF file.tag # "Ok" THEN file
        ELSE IF ~entry.toml.category.some THEN Err("MissingField")
        ELSE IF PackageType_from_str(entry.toml.type).tag # "Ok"
        THEN PackageType_from_str(entry.toml.type)
        ELSE IF deserialize_entrypoints(entry.toml.entrypoints).tag # "Ok"
        THEN deserialize_entrypoints(entry.toml.entrypoints)
        ELSE Ok([path |-> entry.name,
                 config |-> [category |-> entry.toml.category.value,
                             pkg_type |-> entry.toml.type,
                             identifier |-> entry.toml.identifier,
                             entrypoints |-> entry.toml.entrypoints],
                 dir |-> entry])

\* Version::read: VersionConfig is deserialized from version.toml.
Version_read(entry) ==
    LET file == read_toml(entry.toml)
    IN  IF file.tag # "Ok" THEN file
        ELSE IF ~entry.toml.time THEN Err("MissingField")
        ELSE IF deserialize_entrypoints(entry.toml.entrypoints).tag # "Ok"
        THEN deserialize_entrypoints(entry.toml.entrypoints)
        ELSE Ok([path |-> entry.name,
                 config |-> [entrypoints |-> entry.toml.entrypoints],
                 dir |-> entry])

-----------------------------------------------------------------------------
(* Discovery *)

Warning(message, name) == [message |-> message, name |-> name]

Discovered(result, warnings) == [tag |-> "Ok", value |-> result, warnings |-> warnings]

\* Mutant: an entry that fails to read ends the listing with its error.
RECURSIVE discover_packages_loop_strict(_, _, _, _)
discover_packages_loop_strict(entries, i, result, warnings) ==
    IF i > Len(entries) THEN Discovered(result, warnings)
    ELSE LET entry == entries[i]
         IN  IF entry.entry # "Ok"
             THEN discover_packages_loop_strict(entries, i + 1, result,
                     Append(warnings, Warning("failed to read entry", entry.name)))
             ELSE IF entry.metadata = "Err"
             THEN discover_packages_loop_strict(entries, i + 1, result,
                     Append(warnings, Warning("failed to get metadata for entry", entry.name)))
             ELSE IF entry.metadata # "dir"
             THEN discover_packages_loop_strict(entries, i + 1, result, warnings)
             ELSE IF entry.toml.state = "absent"
             THEN discover_packages_loop_strict(entries, i + 1, result, warnings)
             ELSE IF Package_read(entry).tag # "Ok"
             THEN [tag |-> Package_read(entry).tag, value |-> <<>>, warnings |-> warnings]
             ELSE discover_packages_loop_strict(entries, i + 1,
                     Append(result, Package_read(entry).value), warnings)

\* The loop `for entry in fs::read_dir(dir)?` of Package::discover_packages.
RECURSIVE discover_packages_loop(_, _, _, _)
discover_packages_loop(entries, i, result, warnings) ==
    IF i > Len(entries) THEN Discovered(result, warnings)
    ELSE LET entry == entries[i]
         IN  IF entry.entry # "Ok"
             THEN discover_packages_loop(entries, i + 1, result,
                     Append(warnings, Warning("failed to read entry", entry.name)))
             ELSE IF entry.metadata = "Err"
             THEN discover_packages_loop(entries, i + 1, result,
                     Append(warnings, Warning("failed to get metadata for entry", entry.name)))
             ELSE IF entry.metadata # "dir"
             THEN discover_packages_loop(entries, i + 1, result, warnings)
             ELSE IF entry.toml.state = "absent"
             THEN discover_packages_loop(entries, i + 1, result, warnings)
             ELSE IF Package_read(entry).tag # "Ok"
             THEN discover_packages_loop(entries, i + 1, result,
                     Append(warnings, Warning("failed to read package", entry.name)))
             ELSE discover_packages_loop(entries, i + 1,
                     Append(result, Package_read(entry).value), warnings)

\* Package::discover_packages(dir)
discover_packages(dir) ==
    IF ~dir.read_dir THEN [tag |-> "Io", value |-> <<>>, warnings |-> <<>>]
    ELSE discover_packages_loop(dir.entries, 1, <<>>, <<>>)

\* The loop `for entry in fs::read_dir(dir)?` of Version::discover_versions.
RECURSIVE discover_versions_loop(_, _, _, _)
discover_versions_loop(entries, i, result, warnings) ==
    IF i > Len(entries) THEN Discovered(result, warnings)
    ELSE LET entry == entries[i]
         IN  IF entry.entry # "Ok"
             THEN discover_versions_loop(entries, i + 1, result,
                     Append(warnings, Warning("failed to read entry", entry.name)))
             ELSE IF entry.metadata = "Err"
             THEN discover_versions_loop(entries, i + 1, result,
                     Append(warnings, Warning("failed to get metadata for entry", entry.name)))
             ELSE IF entry.metadata # "dir"
             THEN discover_versions_loop(entries, i + 1, result, warnings)
             ELSE IF entry.toml.state = "absent"
             THEN discover_versions_loop(entries, i + 1, result, warnings)
             ELSE IF Version_read(entry).tag # "Ok"
             THEN discover_versions_loop(entries, i + 1, result,
                     Append(warnings, Warning("failed to read version", entry.name)))
             ELSE discover_versions_loop(entries, i + 1,
                     Append(result, Version_read(entry).value), warnings)

\* Version::discover_versions(dir)
discover_versions(dir) ==
    IF ~dir.read_dir THEN [tag |-> "Io", value |-> <<>>, warnings |-> <<>>]
    ELSE discover_versions_loop(dir.entries, 1, <<>>, <<>>)


\* The entries of a directory: a package directory of a repository, a version
\* directory of a package; the fields are what the file system holds.
PackageToml(state, type, category, identifier, entrypoints) ==
    [state |-> state, type |-> type, category |-> category,
     identifier |-> identifier, entrypoints |-> entrypoints]

VersionToml(state, time, entrypoints) ==
    [state |-> state, time |-> time, entrypoints |-> entrypoints]

Dir(entries) == [read_dir |-> TRUE, entries |-> entries]

PackageEntry(entry, metadata, toml, readme, version_entries) ==
    [name |-> <<>>, entry |-> entry, metadata |-> metadata, toml |-> toml,
     readme |-> readme, versions |-> Dir(version_entries)]

\* `symlink`: version.toml is a symbolic link to the file described by `toml`;
\* `files`: the regular files the walk of the directory yields, in its order.
VersionEntry(entry, metadata, toml, symlink, files) ==
    [name |-> <<>>, entry |-> entry, metadata |-> metadata, toml |-> toml,
     symlink |-> symlink, files |-> files]

Name(prefix, i) == <<prefix, HexDigits[i + 1]>>

WithNames(entries, prefix) ==
    [i \in 1..Len(entries) |-> [entries[i] EXCEPT !.name = Name(prefix, i)]]

S_A == <<"a">>
S_VERSION_TOML == <<"v", "e", "r", "s", "i", "o", "n", ".", "t", "o", "m", "l">>

NoPackageToml == PackageToml("absent", "script", NoneOption, NoneOption, NoneOption)
NoVersionToml == VersionToml("absent", FALSE, NoneOption)

\* The shapes an entry of a repository directory may have.
PackageShapes ==
    { PackageEntry("Err", "Err", NoPackageToml, "none", <<>>),
      PackageEntry("Ok", "Err", NoPackageToml, "none", <<>>),
      PackageEntry("Ok", "file", NoPackageToml, "none", <<>>),
      PackageEntry("Ok", "dir", NoPackageToml, "none", <<>>),
      PackageEntry("Ok", "dir",
          PackageToml("unreadable", "script", Some(S_A), NoneOption, NoneOption), "none", <<>>),
      PackageEntry("Ok", "dir",
          PackageToml("syntax_error", "script", Some(S_A), NoneOption, NoneOption), "none", <<>>),
      PackageEntry("Ok", "dir",
          PackageToml("table", "script", NoneOption, NoneOption, NoneOption), "none", <<>>),
      PackageEntry("Ok", "dir",
          PackageToml("table", "Script", Some(S_A), NoneOption, NoneOption), "none", <<>>),
      PackageEntry("Ok", "dir",
          PackageToml("table", "script", Some(S_A), NoneOption, Some(Map1("Main", <<P_LUA>>))),
          "none", <<>>),
      PackageEntry("Ok", "dir",
          PackageToml("table", "script", Some(S_A), NoneOption, Some(Map1("main", <<P_LUA>>))),
          "none", <<>>),
      PackageEntry("Ok", "dir",
          PackageToml("table", "extension", Some(<<>>), Some(S_A), NoneOption), "none", <<>>) }

\* The shapes an entry of a package directory may have.
VersionShapes ==
    { VersionEntry("Err", "Err", NoVersionToml, FALSE, <<>>),
      VersionEntry("Ok", "Err", NoVersionToml, FALSE, <<>>),
      VersionEntry("Ok", "file", NoVersionToml, FALSE, <<>>),
      VersionEntry("Ok", "dir", NoVersionToml, FALSE, <<F_MAIN>>),
      VersionEntry("Ok", "dir", VersionToml("unreadable", TRUE, NoneOption), FALSE,
          <<S_VERSION_TOML>>),
      VersionEntry("Ok", "dir", VersionToml("syntax_error", TRUE, NoneOption), FALSE,
          <<S_VERSION_TOML, F_MAIN>>),
      VersionEntry("Ok", "dir", VersionToml("table", FALSE, NoneOption), FALSE,
          <<S_VERSION_TOML>>),
      VersionEntry("Ok", "dir", VersionToml("table", TRUE, Some(Map1("Main", <<P_LUA>>))), FALSE,
          <<F_MAIN, S_VERSION_TOML>>),
      VersionEntry("Ok", "dir", VersionToml("table", TRUE, NoneOption), FALSE,
          <<F_MAIN, S_VERSION_TOML>>),
      VersionEntry("Ok", "dir", VersionToml("table", TRUE, Some(Map1("main", <<P_LUA>>))), TRUE,
          <<>>) }

DiscNone == [tag |-> "None", value |-> <<>>, warnings |-> <<>>]

DiscInit ==
    /\ \/ \E shapes \in StringsUpTo(PackageShapes, MaxEntries), ok \in BOOLEAN :
             dirEntries = [of |-> "repository", read_dir |-> ok,
                           entries |-> WithNames(shapes, "p")]
       \/ \E shapes \in StringsUpTo(VersionShapes, MaxEntries), ok \in BOOLEAN :
             dirEntries = [of |-> "package", read_dir |-> ok,
                           entries |-> WithNames(shapes, "v")]
    /\ discResult = DiscNone

DiscIdle ==
    /\ dirEntries = [of |-> "none", read_dir |-> FALSE, entries |-> <<>>]
    /\ discResult = DiscNone

\* Package::discover_packages on the directory of a repository.
DiscoverPackages ==
    /\ dirEntries.of = "repository"
    /\ discResult = DiscNone
    /\ discResult' = discover_packages(dirEntries)
    /\ UNCHANGED <<dirEntries, cdataVars, incVars, cmpVars, latestVars, pubVars, idxVars, encVars, genVars>>

\* Version::discover_versions on the directory of a package.
DiscoverVersions ==
    /\ dirEntries.of = "package"
    /\ discResult = DiscNone
    /\ discResult' = discover_versions(dirEntries)
    /\ UNCHANGED <<dirEntries, cdataVars, incVars, cmpVars, latestVars, pubVars, idxVars, encVars, genVars>>

DiscoverNext == DiscoverPackages \/ DiscoverVersions

-----------------------------------------------------------------------------
(* Source::url *)

K_RELPATH == <<"r", "e", "l", "p", "a", "t", "h">>
K_GIT_COMMIT == <<"g", "i", "t", "_", "c", "o", "m", "m", "i", "t">>
GIT_HASH == <<"c", "0", "f", "f", "e", "e">>

OPEN_BRACE == <<"{">>
CLOSE_BRACE == <<"}">>

TextItem(s) == [kind |-> "Text", value |-> s]
KeyItem(s) == [kind |-> "Key", value |-> s]

\* Template::parse: the runs of text and the {key} placeholders of the pattern,
\* in order; a brace without its partner is a parse error.
RECURSIVE Template_parse(_)
Template_parse(s) ==
    IF s = <<>> THEN Ok(<<>>)
    ELSE IF Head(s) = "{"
    THEN IF ~Contains(s, CLOSE_BRACE) THEN Err("ParseError")
         ELSE LET j == Min(Occurrences(s, CLOSE_BRACE))
              IN  With(Template_parse(Drop(s, j)), LAMBDA rest :
                    IF rest.tag # "Ok" THEN rest
                    ELSE Ok(<<KeyItem(SubSeq(s, 2, j - 1))>> \o rest.value))
    ELSE IF Head(s) = "}" THEN Err("ParseError")
    ELSE LET stops == Occurrences(s, OPEN_BRACE) \cup Occurrences(s, CLOSE_BRACE)
             n == IF stops = {} THEN Len(s) ELSE Min(stops) - 1
         IN  With(Template_parse(Drop(s, n)), LAMBDA rest :
                IF rest.tag # "Ok" THEN rest
                ELSE Ok(<<TextItem(SubSeq(s, 1, n))>> \o rest.value))

\* What the run carries along: the repository's git_hash cell, the number of
\* times git was launched, the number of Source::url calls, the versions whose
\* element was asked for, and the warnings logged.
RunStart ==
    [git_hash |-> NoneOption, git_calls |-> 0, renders |-> 0, visited |-> <<>>,
     warnings |-> <<>>]

Outcome(tag, value, st) == [tag |-> tag, value |-> value, st |-> st]

\* get_git_commit(dir): `git rev-parse HEAD` in the repository.
get_git_commit(repository) ==
    IF repository.git = "Ok" THEN Ok(GIT_HASH) ELSE Err(repository.git)

\* Mutant: the revision id is asked of git at every use.
git_hash_uncached(repository, st) ==
    LET r == get_git_commit(repository)
    IN  Outcome(r.tag, r.value, [st EXCEPT !.git_calls = @ + 1])

\* Repository::git_hash: OnceCell::get_or_try_init; the cell is filled only by
\* a successful call.
git_hash(repository, st) ==
    IF st.git_hash.some THEN Outcome("Ok", st.git_hash.value, st)
    ELSE With(get_git_commit(repository), LAMBDA r :
            Outcome(r.tag, r.value,
                    [st EXCEPT !.git_calls = @ + 1,
                               !.git_hash = IF r.tag = "Ok" THEN Some(r.value) ELSE @]))

\* Mutant: a key without a value is rendered as nothing.
get_value_lenient(repository, source_relpath, key, st) ==
    IF key = K_GIT_COMMIT
    THEN With(git_hash(repository, st), LAMBDA r :
            IF r.tag = "Ok" THEN Outcome("Some", r.value, r.st)
            ELSE Outcome("Some", <<>>, r.st))
    ELSE IF key = K_RELPATH
    THEN Outcome("Some", url_encode_path(source_relpath), st)
    ELSE Outcome("Some", <<>>, st)

\* UrlTemplateValueProvider::get_value
UrlTemplateValueProvider_get_value(repository, source_relpath, key, st) ==
    IF key = K_GIT_COMMIT
    THEN With(git_hash(repository, st), LAMBDA r :
            IF r.tag = "Ok" THEN Outcome("Some", r.value, r.st)
            ELSE Outcome("None", <<>>, r.st))
    ELSE IF key = K_RELPATH
    THEN Outcome("Some", url_encode_path(source_relpath), st)
    ELSE Outcome("None", <<>>, st)

\* Template::render: the items in order; the first key without a value ends
\* the render with RenderError::MissingKey(key).
RECURSIVE Template_render(_, _, _, _, _, _)
Template_render(items, i, buf, repository, source_relpath, st) ==
    IF i > Len(items) THEN Outcome("Ok", buf, st)
    ELSE IF items[i].kind = "Text"
    THEN Template_render(items, i + 1, buf \o items[i].value, repository, source_relpath, st)
    ELSE With(UrlTemplateValueProvider_get_value(repository, source_relpath,
                                                 items[i].value, st),
              LAMBDA v :
                IF v.tag = "Some"
                THEN Template_render(items, i + 1, buf \o v.value, repository,
                                     source_relpath, v.st)
                ELSE Outcome("MissingKey", items[i].value, v.st))

\* Source::url
Source_url(repository, source_relpath, st) ==
    With(Template_parse(repository.url_pattern), LAMBDA template :
        With([st EXCEPT !.renders = @ + 1], LAMBDA st1 :
            IF template.tag # "Ok" THEN Outcome(template.tag, <<>>, st1)
            ELSE Template_render(template.value, 1, <<>>, repository, source_relpath, st1)))

-----------------------------------------------------------------------------
(* Source::element *)

\* Package::identifier
Package_identifier(pkg) ==
    IF pkg.config.identifier.some THEN pkg.config.identifier.value ELSE pkg.path

\* Source::output_relpath: the identifier joined with the path from the version.
output_relpath(pkg, relpath_from_version) ==
    join(<<Package_identifier(pkg), relpath_from_version>>)

\* The loop of output_relpath_from_category over the category's components.
RECURSIVE category_loop(_, _)
category_loop(comps, result) ==
    IF comps = <<>> THEN Ok(result)
    ELSE IF Head(comps) = CUR_STR THEN category_loop(Tail(comps), result)
    ELSE IF Head(comps) = PARENT_STR THEN Panic
    ELSE category_loop(Tail(comps), Append(result, PARENT_STR))

\* Mutant: one '..' is pushed for every component, '.' included.
output_relpath_from_category_all(pkg, relpath_from_version) ==
    IF \E i \in 1..Len(components(pkg.config.category)) :
          components(pkg.config.category)[i] = PARENT_STR
    THEN Panic
    ELSE Ok(join([i \in 1..Len(components(pkg.config.category)) |-> PARENT_STR]
                 \o <<output_relpath(pkg, relpath_from_version)>>))

\* Source::output_relpath_from_category: the `file` attribute, or the panic.
output_relpath_from_category(pkg, relpath_from_version) ==
    LET result == category_loop(components(pkg.config.category), <<>>)
    IN  IF result.tag # "Ok" THEN result
        ELSE Ok(join(result.value \o <<output_relpath(pkg, relpath_from_version)>>))

\* Source::element
Source_element(repository, pkg, ver, relpath_from_version, st) ==
    With(Source_url(repository, join(<<pkg.path, ver.path, relpath_from_version>>), st),
         LAMBDA u :
    With(output_relpath_from_category(pkg, relpath_from_version), LAMBDA file :
    With(sections_init(pkg.config.pkg_type,
                       version_entrypoints(ver.config.entrypoints, pkg.config.entrypoints),
                       relpath_from_version),
         LAMBDA sections :
        IF u.tag # "Ok" THEN u
        ELSE IF file.tag # "Ok" THEN Outcome(file.tag, pkg.config.category, u.st)
        ELSE IF sections.tag # "Ok" THEN Outcome(sections.tag, pkg.path, u.st)
        ELSE Outcome("Ok",
                     [url |-> u.value, file |-> file.value, main |-> sections.value],
                     u.st))))

-----------------------------------------------------------------------------
(* Version::element, Package::element, Repository::element *)

S_CHANGELOG_TXT == <<"C", "H", "A", "N", "G", "E", "L", "O", "G", ".", "t", "x", "t">>
CHANGELOG_TEXT == <<"x", "]", "]", ">">>

\* Source::discover_sources: the regular files under the version directory.
discover_sources(ver) ==
    IF ver.dir.files = <<>> THEN Err("NoSourcesFound") ELSE Ok(ver.dir.files)

\* Version::changelog: CHANGELOG.txt, when the directory has it.
Version_changelog(ver) ==
    IF S_CHANGELOG_TXT \in Items(ver.dir.files) THEN Some(CHANGELOG_TEXT) ELSE NoneOption

\* The loop `for source in sources.iter()` of Version::element.
RECURSIVE Version_sources_loop(_, _, _, _, _, _, _)
Version_sources_loop(repository, pkg, ver, sources, i, elements, st) ==
    IF i > Len(sources) THEN Outcome("Ok", elements, st)
    ELSE With(Source_element(repository, pkg, ver, sources[i], st), LAMBDA e :
            IF e.tag # "Ok" THEN e
            ELSE Version_sources_loop(repository, pkg, ver, sources, i + 1,
                                      Append(elements, e.value), e.st))

\* Mutant: a version without sources gives an element without children.
Version_element_unchecked(repository, pkg, ver, st) ==
    With([st EXCEPT !.visited = Append(@, <<pkg.path, ver.path>>)], LAMBDA st1 :
    With(Version_sources_loop(repository, pkg, ver, ver.dir.files, 1, <<>>, st1), LAMBDA r :
        IF r.tag # "Ok" THEN r
        ELSE Outcome("Ok", [name |-> ver.path, changelog |-> NoneOption,
                            sources |-> r.value], r.st)))

\* Version::element
Version_element(repository, pkg, ver, st) ==
    With([st EXCEPT !.visited = Append(@, <<pkg.path, ver.path>>)], LAMBDA st1 :
    With(Version_changelog(ver), LAMBDA changelog_text :
    With(discover_sources(ver), LAMBDA sources :
        IF sources.tag # "Ok" THEN Outcome(sources.tag, <<pkg.path, ver.path>>, st1)
        ELSE With(Version_sources_loop(repository, pkg, ver, sources.value, 1, <<>>, st1),
                  LAMBDA r :
                IF r.tag # "Ok" THEN r
                ELSE IF script_check(pkg.config.pkg_type,
                                     [i \in 1..Len(r.value) |-> r.value[i].main]) # "Ok"
                THEN Outcome(script_check(pkg.config.pkg_type,
                                          [i \in 1..Len(r.value) |-> r.value[i].main]),
                             pkg.path, r.st)
                ELSE Outcome("Ok",
                             [name |-> ver.path,
                              changelog |-> IF changelog_text.some
                                            THEN Some(cdata(changelog_text.value))
                                            ELSE NoneOption,
                              sources |-> r.value],
                             r.st)))))

\* read_rtf_or_md_file: the RTF file, else the Markdown file through pandoc.
read_rtf_or_md_file(repository, readme) ==
    IF readme = "rtf" THEN Ok(Some(readme))
    ELSE IF readme = "md"
    THEN IF repository.pandoc = "Ok" THEN Ok(Some(readme)) ELSE Err(repository.pandoc)
    ELSE Ok(NoneOption)

\* The loop `for version in self.versions()?.iter()` of Package::element.
RECURSIVE Package_versions_loop(_, _, _, _, _, _)
Package_versions_loop(repository, pkg, vers, i, elements, st) ==
    IF i > Len(vers) THEN Outcome("Ok", elements, st)
    ELSE With(Version_element(repository, pkg, vers[i], st), LAMBDA e :
            IF e.tag # "Ok" THEN e
            ELSE Package_versions_loop(repository, pkg, vers, i + 1,
                                       Append(elements, e.value), e.st))

\* Package::element
Package_element(repository, pkg, st) ==
    With(read_rtf_or_md_file(repository, pkg.dir.readme), LAMBDA desc :
    With(discover_versions(pkg.dir.versions), LAMBDA vers :
        IF desc.tag # "Ok" THEN Outcome(desc.tag, pkg.path, st)
        ELSE IF vers.tag # "Ok" THEN Outcome(vers.tag, pkg.path, st)
        ELSE With(Package_versions_loop(repository, pkg, vers.value, 1, <<>>,
                                        [st EXCEPT !.warnings = @ \o vers.warnings]),
                  LAMBDA r :
                IF r.tag # "Ok" THEN r
                ELSE Outcome("Ok",
                             [name |-> Package_identifier(pkg),
                              type |-> pkg.config.pkg_type,
                              path |-> pkg.path,
                              versions |-> r.value],
                             r.st))))

\* The block `let pkg_map = { .. }` of Repository::element: the keys are
\* RelativePathBufs, equal when their components are equal; a key is the
\* category of the first package that had it.
RECURSIVE pkg_map(_, _, _)
pkg_map(packages, i, groups) ==
    IF i > Len(packages) THEN groups
    ELSE LET category == packages[i].config.category
         IN  IF \E g \in 1..Len(groups) : components(groups[g].key) = components(category)
             THEN pkg_map(packages, i + 1,
                    [g \in 1..Len(groups) |->
                        IF components(groups[g].key) = components(category)
                        THEN [groups[g] EXCEPT !.packages = Append(@, packages[i])]
                        ELSE groups[g]])
             ELSE pkg_map(packages, i + 1,
                    Append(groups, [key |-> category, packages |-> <<packages[i]>>]))

\* The loop `for pkg in packages` of one category.
RECURSIVE category_packages_loop(_, _, _, _, _)
category_packages_loop(repository, packages, i, elements, st) ==
    IF i > Len(packages) THEN Outcome("Ok", elements, st)
    ELSE With(Package_element(repository, packages[i], st), LAMBDA e :
            IF e.tag # "Ok" THEN e
            ELSE category_packages_loop(repository, packages, i + 1,
                                        Append(elements, e.value), e.st))

\* The loop `for (category_name, packages) in pkg_map.iter()`, the map being
\* iterated in `order`.
RECURSIVE categories_loop(_, _, _, _, _, _)
categories_loop(repository, groups, order, i, elements, st) ==
    IF i > Len(order) THEN Outcome("Ok", elements, st)
    ELSE With(category_packages_loop(repository, groups[order[i]].packages, 1, <<>>, st),
              LAMBDA r :
                IF r.tag # "Ok" THEN r
                ELSE categories_loop(repository, groups, order, i + 1,
                        Append(elements, [name |-> groups[order[i]].key,
                                          packages |-> r.value]),
                        r.st))

\* The iteration orders a HashMap of these groups may have.
MapOrders(groups) == Orders(1..Len(groups))

\* The pkg_map of a repository, empty when its directory cannot be listed.
repository_groups(repository) ==
    LET packages == discover_packages(repository.dir)
    IN  IF packages.tag = "Ok" THEN pkg_map(packages.value, 1, <<>>) ELSE <<>>

\* Repository::element, the map being iterated in `order`.
Repository_element(repository, order) ==
    With(read_rtf_or_md_file(repository, repository.readme), LAMBDA desc :
    With(discover_packages(repository.dir), LAMBDA packages :
        IF desc.tag # "Ok" THEN Outcome(desc.tag, <<>>, RunStart)
        ELSE IF packages.tag # "Ok" THEN Outcome(packages.tag, <<>>, RunStart)
        ELSE With(pkg_map(packages.value, 1, <<>>), LAMBDA groups :
             With(categories_loop(repository, groups, order, 1, <<>>,
                                  [RunStart EXCEPT !.warnings = packages.warnings]),
                  LAMBDA r :
                IF r.tag # "Ok" THEN r
                ELSE Outcome("Ok",
                             [description |-> desc.value, categories |-> r.value],
                             r.st)))))

\* Repository::generate_index: the element, then its serialization.
generate_index(repository, order) == Repository_element(repository, order)


-----------------------------------------------------------------------------
(* The repositories of the export runs *)

S_EMPTY == <<>>
S_A_B == <<"a", "/", "b">>
S_A_DOT_B == <<"a", "/", ".", "/", "b">>
S_A_SLASH_SLASH_B == <<"a", "/", "/", "b">>
S_PARENT == <<".", ".">>
S_A_PARENT == <<"a", "/", ".", ".">>
S_X == <<"x">>
F_UTIL_TXT == <<"u", ".", "t", "x", "t">>

U_RELPATH == <<"h", "/", "{", "r", "e", "l", "p", "a", "t", "h", "}">>
U_GIT == <<"h", "/", "{", "g", "i", "t", "_", "c", "o", "m", "m", "i", "t", "}", "/",
           "{", "r", "e", "l", "p", "a", "t", "h", "}">>
U_FOO == <<"{", "r", "e", "l", "p", "a", "t", "h", "}", "?", "{", "f", "o", "o", "}">>
U_GIT_FOO == <<"{", "g", "i", "t", "_", "c", "o", "m", "m", "i", "t", "}", "{", "f", "o", "o", "}">>
U_FOO_GIT == <<"{", "f", "o", "o", "}", "{", "g", "i", "t", "_", "c", "o", "m", "m", "i", "t", "}">>

Repository(pattern, git, readme, pandoc, entries) ==
    [url_pattern |-> pattern, git |-> git, readme |-> readme, pandoc |-> pandoc,
     dir |-> Dir(entries)]

\* The url pattern, the state of git, the README and the state of pandoc.
RepositoryConfigs ==
    { <<U_RELPATH, "Ok", "none", "Ok">>,
      <<U_RELPATH, "FailedToLaunchGit", "md", "Ok">>,
      <<U_RELPATH, "Ok", "md", "PandocNotInstalled">>,
      <<U_GIT, "Ok", "none", "Ok">>,
      <<U_GIT, "FailedToGetGitHash", "none", "Ok">>,
      <<U_FOO, "Ok", "none", "Ok">>,
      <<U_GIT_FOO, "FailedToGetGitHash", "rtf", "Ok">>,
      <<U_FOO_GIT, "Ok", "none", "Ok">> }

CategoryRepositoryConfigs ==
    { <<U_RELPATH, "Ok", "none", "Ok">>,
      <<U_GIT, "Ok", "none", "Ok">>,
      <<U_GIT, "FailedToGetGitHash", "none", "Ok">>,
      <<U_FOO, "Ok", "none", "Ok">> }

GoodVersion(files, entrypoints, symlink) ==
    VersionEntry("Ok", "dir", VersionToml("table", TRUE, entrypoints), symlink, files)

V_MAIN == GoodVersion(<<F_MAIN, S_VERSION_TOML>>, NoneOption, FALSE)

\* The version directories of the runs. A directory found by discovery holds
\* version.toml, which the walk yields with the other files unless it is a link.
GenVersionShapes ==
    { V_MAIN,
      GoodVersion(<<F_MAIN, F_UTIL_TXT, S_VERSION_TOML>>, NoneOption, FALSE),
      GoodVersion(<<S_VERSION_TOML>>, NoneOption, FALSE),
      GoodVersion(<<>>, NoneOption, TRUE),
      GoodVersion(<<F_MAIN, F_UTIL_TXT>>, NoneOption, TRUE),
      GoodVersion(<<S_CHANGELOG_TXT, F_MAIN, S_VERSION_TOML>>, Some(Map1("main", <<P_LUA>>)), FALSE),
      GoodVersion(<<S_VERSION_TOML, F_MAIN>>, Some(Map1("main", <<>>)), FALSE),
      VersionEntry("Ok", "dir", VersionToml("table", TRUE, Some(Map1("Main", <<P_LUA>>))), FALSE,
          <<S_VERSION_TOML, F_MAIN>>),
      VersionEntry("Ok", "file", NoVersionToml, FALSE, <<>>) }

GoodPackage(type, category, identifier, entrypoints, readme, version_entries) ==
    PackageEntry("Ok", "dir", PackageToml("table", type, Some(category), identifier, entrypoints),
                 readme, WithNames(version_entries, "v"))

\* The package configs of the runs over the version directories.
GenPackageTomls ==
    { <<"script", Some(Map1("main", <<P_LUA>>))>>,
      <<"script", NoneOption>>,
      <<"extension", NoneOption>> }

\* The package directories of the runs over the categories.
GenPackageShapes ==
    { GoodPackage("extension", S_EMPTY, NoneOption, NoneOption, "none", <<V_MAIN>>),
      GoodPackage("extension", S_A, NoneOption, NoneOption, "none", <<V_MAIN>>),
      GoodPackage("extension", S_A_B, NoneOption, NoneOption, "none", <<V_MAIN>>),
      GoodPackage("extension", S_A_DOT_B, NoneOption, NoneOption, "none", <<V_MAIN>>),
      GoodPackage("extension", S_A_SLASH_SLASH_B, NoneOption, NoneOption, "none", <<>>),
      GoodPackage("extension", S_PARENT, NoneOption, NoneOption, "none", <<V_MAIN>>),
      GoodPackage("extension", S_PARENT, NoneOption, NoneOption, "none", <<>>),
      GoodPackage("extension", S_A_PARENT, NoneOption, NoneOption, "none", <<V_MAIN>>),
      GoodPackage("Script", S_A, NoneOption, Some(Map1("main", <<P_LUA>>)), "none", <<V_MAIN>>),
      GoodPackage("script", S_A_B, Some(S_X), Some(Map1("main", <<P_LUA>>)), "md", <<V_MAIN>>),
      PackageEntry("Ok", "dir", NoPackageToml, "none", <<>>),
      PackageEntry("Ok", "file", NoPackageToml, "none", <<>>) }

GenNone == Outcome("None", <<>>, RunStart)

\* The file at output_path: not there, there with what an earlier run or
\* someone else wrote, or there with the index that fs::write put in it.
NoOutput == [tag |-> "absent", value |-> <<>>]
OldOutput == [tag |-> "old", value |-> <<>>]
IndexFile(index) == [tag |-> "index", value |-> index]

\* A run of generate_index on a repository that was read: nothing is written.
ExportIdle ==
    /\ repoConfig = "table"
    /\ output = NoOutput

\* Repositories of several packages, each with one version or none.
GenInitCategories ==
    /\ \E c \in CategoryRepositoryConfigs, shapes \in StringsUpTo(GenPackageShapes, MaxPackages) :
          repo = Repository(c[1], c[2], c[3], c[4], WithNames(shapes, "p"))
    /\ genResult = GenNone
    /\ ExportIdle

\* Repositories of one package with several version directories.
GenInitVersions ==
    /\ \E c \in RepositoryConfigs, t \in GenPackageTomls,
          shapes \in StringsUpTo(GenVersionShapes, MaxVersionDirs) :
          repo = Repository(c[1], c[2], c[3], c[4],
                     WithNames(<<GoodPackage(t[1], S_A, NoneOption, t[2], "none", shapes)>>, "p"))
    /\ genResult = GenNone
    /\ ExportIdle

GenInit == GenInitCategories \/ GenInitVersions

GenIdle ==
    /\ repo = Repository(<<>>, "Ok", "none", "Ok", <<>>)
    /\ genResult = GenNone
    /\ ExportIdle

\* Commands::Export: repo.generate_index()
GenerateIndex ==
    /\ genResult = GenNone
    /\ \E order \in MapOrders(repository_groups(repo)) :
          genResult' = generate_index(repo, order)
    /\ UNCHANGED <<repo, repoConfig, output>>
    /\ UNCHANGED <<cdataVars, incVars, cmpVars, latestVars, pubVars, idxVars, encVars, discVars>>

\* Repository::read: the config file must be there, be read and parse.
Repository_read(config) ==
    IF config = "absent" THEN Err("NotARepository")
    ELSE IF config = "unreadable" THEN Err("Io")
    ELSE IF config = "syntax_error" THEN Err("Toml")
    ELSE Ok(<<>>)

\* Mutant: the output file is created before the index is generated.
export_output_eager(file, result) ==
    IndexFile(IF result.tag = "Ok" THEN result.value ELSE <<>>)

\* The file at output_path after the command: fs::write(&output_path, &index)
\* is reached when neither `?` before it has returned.
export_output(file, result) ==
    IF result.tag = "Ok" THEN IndexFile(result.value) ELSE file

\* The repositories of the export runs, with the file at output_path.
ExportInit ==
    /\ \/ \E c \in CategoryRepositoryConfigs, shapes \in StringsUpTo(GenPackageShapes, MaxPackages) :
             repo = Repository(c[1], c[2], c[3], c[4], WithNames(shapes, "p"))
       \/ \E c \in RepositoryConfigs, t \in GenPackageTomls,
             shapes \in StringsUpTo(GenVersionShapes, MaxVersionDirs) :
             repo = Repository(c[1], c[2], c[3], c[4],
                        WithNames(<<GoodPackage(t[1], S_A, NoneOption, t[2], "none", shapes)>>, "p"))
    /\ genResult = GenNone
    /\ repoConfig \in {"table", "absent", "unreadable", "syntax_error"}
    /\ output \in {NoOutput, OldOutput}

\* Commands::Export: Repo::read, generate_index, fs::write.
Export ==
    /\ genResult = GenNone
    /\ \E order \in MapOrders(repository_groups(repo)) :
       \E read \in {Repository_read(repoConfig)} :
       \E result \in {IF read.tag # "Ok" THEN Outcome(read.tag, <<>>, RunStart)
                      ELSE generate_index(repo, order)} :
          /\ genResult' = result
          /\ output' = export_output(output, result)
    /\ UNCHANGED <<repo, repoConfig>>
    /\ UNCHANGED <<cdataVars, incVars, cmpVars, latestVars, pubVars, idxVars, encVars, discVars>>

-----------------------------------------------------------------------------
(* The OnceCells of Package, Version and Source *)

\* A glob with a character class that is not closed; the pools hold no other
\* class.
P_UNCLOSED == <<"[", "a">>

\* build_entrypoints with the `?` of GlobBuilder::build: a pattern that does
\* not parse ends it with a globset::Error.
build_entrypoints_result(patterns_map) ==
    IF \E section \in DOMAIN patterns_map :
          \E i \in 1..Len(patterns_map[section]) : patterns_map[section][i] = P_UNCLOSED
    THEN Err("Glob")
    ELSE Ok(build_entrypoints(patterns_map))

\* Mutant: a cell that never keeps its value.
OnceCell_get_never(cell) == NoneOption

\* OnceCell::get: Some(value) once the cell was filled, None before.
OnceCell_get(cell) == cell

\* What a call on the cells returns: its Result and the cells after it.
MemoReturn(tag, value, m) == [tag |-> tag, value |-> value, m |-> m]

\* The closure of the entrypoints cells: the globs of the config are compiled.
entrypoints_init(config_entrypoints) ==
    IF ~config_entrypoints.some THEN Ok(NoneOption)
    ELSE With(build_entrypoints_result(config_entrypoints.value), LAMBDA built :
            IF built.tag # "Ok" THEN built ELSE Ok(Some(built.value)))

\* Package::entrypoints: get_or_try_init on the package's cell.
Package_entrypoints(m) ==
    IF OnceCell_get(m.pkg_cell).some
    THEN MemoReturn("Ok", OnceCell_get(m.pkg_cell).value, m)
    ELSE With(entrypoints_init(m.config.pkg_entrypoints), LAMBDA r :
         With([m EXCEPT !.compiled.pkg = @ + 1], LAMBDA m1 :
            IF r.tag # "Ok" THEN MemoReturn(r.tag, NoneOption, m1)
            ELSE MemoReturn("Ok", r.value, [m1 EXCEPT !.pkg_cell = Some(r.value)])))

\* Version::entrypoints: get_or_try_init on the version's cell, then the
\* package's entrypoints when the version has none.
Version_entrypoints(m, v) ==
    With(IF OnceCell_get(m.ver_cells[v]).some
         THEN MemoReturn("Ok", OnceCell_get(m.ver_cells[v]).value, m)
         ELSE With(entrypoints_init(m.config.versions[v].entrypoints), LAMBDA r :
              With([m EXCEPT !.compiled.vers[v] = @ + 1], LAMBDA m1 :
                 IF r.tag # "Ok" THEN MemoReturn(r.tag, NoneOption, m1)
                 ELSE MemoReturn("Ok", r.value, [m1 EXCEPT !.ver_cells[v] = Some(r.value)]))),
         LAMBDA entrypoints :
            IF entrypoints.tag # "Ok" THEN entrypoints
            ELSE IF entrypoints.value.some THEN entrypoints
            ELSE Package_entrypoints(entrypoints.m))

\* Source::sections: get_or_try_init on the source's cell.
Source_sections(m, v, s) ==
    IF OnceCell_get(m.src_cells[v][s]).some
    THEN MemoReturn("Ok", OnceCell_get(m.src_cells[v][s]).value, m)
    ELSE With(Version_entrypoints([m EXCEPT !.computed[v][s] = @ + 1], v), LAMBDA entrypoints :
            IF entrypoints.tag # "Ok" THEN MemoReturn(entrypoints.tag, {}, entrypoints.m)
            ELSE With(sections_init(m.config.pkg_type, entrypoints.value,
                                    m.config.versions[v].files[s]),
                      LAMBDA sections :
                    IF sections.tag # "Ok" THEN MemoReturn(sections.tag, {}, entrypoints.m)
                    ELSE MemoReturn("Ok", sections.value,
                            [entrypoints.m EXCEPT !.src_cells[v][s] = Some(sections.value)])))

\* The run ends: with an error, or after the last version.
MemoEnd(m, tag) == [m EXCEPT !.pc = "done", !.result = tag]

\* Package::element goes to its next version, if it has one.
MemoNextVersion(m) ==
    IF m.ver < Len(m.config.versions)
    THEN [m EXCEPT !.pc = "version", !.ver = @ + 1, !.src = 1]
    ELSE MemoEnd(m, "Ok")

\* The read of a source's sections is noted with the value it returned.
MemoRead(m, v, s, value) ==
    [m EXCEPT !.reads = Append(@, [ver |-> v, src |-> s, value |-> value])]

\* Version::element up to its loop: self.sources()?
MemoVersionSources ==
    /\ memo.pc = "version"
    /\ memo' = IF memo.config.versions[memo.ver].files = <<>>
               THEN MemoEnd(memo, "NoSourcesFound")
               ELSE [memo EXCEPT !.pc = "element", !.src = 1]
    /\ UNCHANGED <<idxConfig, idxResult, idxEntrypoints, srcSections, idxChangelog>>
    /\ UNCHANGED <<cdataVars, incVars, cmpVars, latestVars, pubVars, encVars, discVars, genVars>>

\* One Source::element of the loop `for source in sources.iter()`: the URL
\* is rendered, then the sections are read for the main attribute.
MemoSourceElement ==
    /\ memo.pc = "element"
    /\ memo' =
          IF url(memo.config.url_pattern, memo.config.git_ok) # "Ok"
          THEN MemoEnd(memo, url(memo.config.url_pattern, memo.config.git_ok))
          ELSE With(Source_sections(memo, memo.ver, memo.src), LAMBDA r :
                  IF r.tag # "Ok" THEN MemoEnd(r.m, r.tag)
                  ELSE With(MemoRead(r.m, memo.ver, memo.src, r.value), LAMBDA m1 :
                          IF memo.src < Len(memo.config.versions[memo.ver].files)
                          THEN [m1 EXCEPT !.src = @ + 1]
                          ELSE IF memo.config.pkg_type = "script"
                          THEN [m1 EXCEPT !.pc = "check", !.src = 1]
                          ELSE MemoNextVersion(m1)))
    /\ UNCHANGED <<idxConfig, idxResult, idxEntrypoints, srcSections, idxChangelog>>
    /\ UNCHANGED <<cdataVars, incVars, cmpVars, latestVars, pubVars, encVars, discVars, genVars>>

\* One turn of the loop `for src in sources` of the check for script
\* packages: the sections are read again, and the loop breaks at the first
\* source that has one.
MemoScriptCheck ==
    /\ memo.pc = "check"
    /\ memo' =
          With(Source_sections(memo, memo.ver, memo.src), LAMBDA r :
             IF r.tag # "Ok" THEN MemoEnd(r.m, r.tag)
             ELSE With(MemoRead(r.m, memo.ver, memo.src, r.value), LAMBDA m1 :
                     IF r.value # {} THEN MemoNextVersion(m1)
                     ELSE IF memo.src < Len(memo.config.versions[memo.ver].files)
                     THEN [m1 EXCEPT !.src = @ + 1]
                     ELSE MemoEnd(m1, "NoEntrypointsFoundForScriptPackage")))
    /\ UNCHANGED <<idxConfig, idxResult, idxEntrypoints, srcSections, idxChangelog>>
    /\ UNCHANGED <<cdataVars, incVars, cmpVars, latestVars, pubVars, encVars, discVars, genVars>>

MemoNext == MemoVersionSources \/ MemoSourceElement \/ MemoScriptCheck

\* The entrypoints a config of these packages may give.
MemoEntrypointConfigs ==
    { NoneOption,
      Some(Map1("main", <<>>)),
      Some(Map1("main", <<P_LUA>>)),
      Some(Map1("main", <<P_UNCLOSED>>)) }

\* The version directories of these packages: the entrypoints of version.toml
\* and the files discover_sources returns, in its order.
MemoVersionConfigs ==
    [entrypoints : MemoEntrypointConfigs,
     files : {<<>>, <<F_MAIN>>, <<F_UTIL_TXT, F_MAIN>>, <<F_MAIN, F_UTIL_TXT>>,
              <<F_UTIL_TXT, S_VERSION_TOML>>}]

MemoConfigs ==
    [pkg_type : {"script", "extension"},
     pkg_entrypoints : MemoEntrypointConfigs,
     versions : StringsUpTo(MemoVersionConfigs, MaxMemoVersions) \ {<<>>},
     url_pattern : {<<"relpath">>, <<"relpath", "foo">>},
     git_ok : {TRUE}]

\* Package::element is about to walk the versions of a package that was just
\* read: every cell is empty.
MemoStart(config) ==
    [pc |-> "version", ver |-> 1, src |-> 1, result |-> None, config |-> config,
     pkg_cell |-> NoneOption,
     ver_cells |-> [v \in 1..Len(config.versions) |-> NoneOption],
     src_cells |-> [v \in 1..Len(config.versions) |->
                      [s \in 1..Len(config.versions[v].files) |-> NoneOption]],
     compiled |-> [pkg |-> 0, vers |-> [v \in 1..Len(config.versions) |-> 0]],
     computed |-> [v \in 1..Len(config.versions) |->
                      [s \in 1..Len(config.versions[v].files) |-> 0]],
     reads |-> <<>>]

MemoInit == IdxOff /\ memo \in {MemoStart(config) : config \in MemoConfigs}

-----------------------------------------------------------------------------
(* Specifications *)

InitCdata == CdataInit /\ IncIdle /\ CmpIdle /\ LatestIdle /\ PubIdle /\ IdxIdle /\ EncIdle /\ DiscIdle /\ GenIdle

SpecCdata == InitCdata /\ [][CallCdata]_vars

InitIncrement == CdataIdle /\ IncInit /\ CmpIdle /\ LatestIdle /\ PubIdle /\ IdxIdle /\ EncIdle /\ DiscIdle /\ GenIdle

SpecIncrement == InitIncrement /\ [][CallIncrement]_vars

InitCompare == CdataIdle /\ IncIdle /\ CmpInit /\ LatestIdle /\ PubIdle /\ IdxIdle /\ EncIdle /\ DiscIdle /\ GenIdle

SpecCompare == InitCompare /\ [][CallCompare]_vars

InitPublish == CdataIdle /\ IncIdle /\ CmpIdle /\ LatestIdle /\ PubInit /\ IdxIdle /\ EncIdle /\ DiscIdle /\ GenIdle

SpecPublish == InitPublish /\ [][PublishNext]_vars

InitAutoPublish == CdataIdle /\ IncIdle /\ CmpIdle /\ LatestIdle /\ AutoPubInit /\ IdxIdle /\ EncIdle /\ DiscIdle /\ GenIdle

SpecAutoPublish == InitAutoPublish /\ [][AutoPublishNext]_vars

InitIndex == CdataIdle /\ IncIdle /\ CmpIdle /\ LatestIdle /\ PubIdle /\ IdxInit /\ EncIdle /\ DiscIdle /\ GenIdle

SpecIndex == InitIndex /\ [][VersionElement]_vars

InitLatest == CdataIdle /\ IncIdle /\ CmpIdle /\ LatestInit /\ PubIdle /\ IdxIdle /\ EncIdle /\ DiscIdle /\ GenIdle

SpecLatest == InitLatest /\ [][CallFindLatest]_vars

InitEncode == CdataIdle /\ IncIdle /\ CmpIdle /\ LatestIdle /\ PubIdle /\ IdxIdle /\ EncInit /\ DiscIdle /\ GenIdle

SpecEncode == InitEncode /\ [][CallUrlEncodePath]_vars

InitDiscover == CdataIdle /\ IncIdle /\ CmpIdle /\ LatestIdle /\ PubIdle /\ IdxIdle /\ EncIdle /\ DiscInit /\ GenIdle

SpecDiscover == InitDiscover /\ [][DiscoverNext]_vars

InitGenerate == CdataIdle /\ IncIdle /\ CmpIdle /\ LatestIdle /\ PubIdle /\ IdxIdle /\ EncIdle /\ DiscIdle /\ GenInit

SpecGenerate == InitGenerate /\ [][GenerateIndex]_vars

InitExport == CdataIdle /\ IncIdle /\ CmpIdle /\ LatestIdle /\ PubIdle /\ IdxIdle /\ EncIdle /\ DiscIdle /\ ExportInit

SpecExport == InitExport /\ [][Export]_vars

InitMemo == CdataIdle /\ IncIdle /\ CmpIdle /\ LatestIdle /\ PubIdle /\ MemoInit /\ EncIdle /\ DiscIdle /\ GenIdle

SpecMemo == InitMemo /\ [][MemoNext]_vars

-----------------------------------------------------------------------------
(* C1 *)

\* t with every left-to-right, non-overlapping "]]>" replaced by
\* "]]]]><![CDATA[>", by a scan of t from its first character.
RECURSIVE ReplaceTerminators(_)
ReplaceTerminators(t) ==
    IF t = <<>> THEN <<>>
    ELSE IF StartsWith(t, CDATA_CLOSE)
         THEN CDATA_SPLIT \o ReplaceTerminators(Drop(t, 3))
         ELSE <<Head(t)>> \o ReplaceTerminators(Tail(t))

\* C1: cdata(t) is "<![CDATA[" + t' + "]]>" with t' the text after replacing
\* every "]]>" by "]]]]><![CDATA[>"; for a text without "]]>" it is
\* "<![CDATA[" + t + "]]>".
C1_CdataEscapes ==
    cdataPc = "done" =>
        /\ cdataResult = CDATA_OPEN \o ReplaceTerminators(text) \o CDATA_CLOSE
        /\ ~Contains(text, CDATA_CLOSE) => cdataResult = CDATA_OPEN \o text \o CDATA_CLOSE

\* "app]]>le"-like: a text with a terminator inside has been escaped.
C1_Witness ==
    /\ cdataPc = "done"
    /\ text = <<"a", "]", "]", ">", "a">>
    /\ cdataResult = CDATA_OPEN \o <<"a">> \o CDATA_SPLIT \o <<"a">> \o CDATA_CLOSE

-----------------------------------------------------------------------------
(* C2 *)

\* Reads `out` as adjacent CDATA sections, each ended by the first "]]>" after
\* its "<![CDATA[": [ok |-> whether the whole of out was consumed,
\* content |-> the concatenated section contents].
RECURSIVE ReadSections(_)
ReadSections(out) ==
    IF out = <<>> THEN [ok |-> TRUE, content |-> <<>>]
    ELSE IF ~StartsWith(out, CDATA_OPEN) THEN [ok |-> FALSE, content |-> <<>>]
    ELSE LET body == Drop(out, Len(CDATA_OPEN))
         IN  IF ~Contains(body, CDATA_CLOSE) THEN [ok |-> FALSE, content |-> <<>>]
             ELSE LET i    == Min(Occurrences(body, CDATA_CLOSE))
                      rest == ReadSections(Drop(body, i + 2))
                  IN  [ok |-> rest.ok, content |-> SubSeq(body, 1, i - 1) \o rest.content]

\* C2: the output of cdata reads back as a sequence of CDATA sections that
\* consumes the whole output and whose contents concatenate to the text.
C2_CdataRoundTrip ==
    cdataPc = "done" =>
        /\ ReadSections(cdataResult).ok
        /\ ReadSections(cdataResult).content = text

\* Adjacent and overlapping bracket runs have been escaped.
C2_Witness ==
    /\ cdataPc = "done"
    /\ text \in {<<"]", "]", "]", ">">>, <<"]", "]", ">", "]", "]", ">">>}
    /\ Len(cdataResult) > Len(text) + 12

-----------------------------------------------------------------------------
(* C3 *)

RECURSIVE DigitsValue(_)
DigitsValue(d) ==
    IF d = <<>> THEN 0
    ELSE 10 * DigitsValue(SubSeq(d, 1, Len(d) - 1)) + (Byte(d[Len(d)]) - Byte("0"))

DigitChar(n) == CHOOSE c \in Digits : Byte(c) - Byte("0") = n

RECURSIVE Decimal(_)
Decimal(n) == IF n < 10 THEN <<DigitChar(n)>> ELSE Append(Decimal(n \div 10), DigitChar(n % 10))

\* The maximal trailing run of ASCII digits of v.
TrailingRun(v) ==
    LET k == Min({j \in 0..Len(v) : \A i \in (j + 1)..Len(v) : v[i] \in Digits})
    IN  SubSeq(v, k + 1, Len(v))

\* The decimal rendering, without leading zeros, of value(d) + 1: by integer
\* arithmetic where the value fits the checker's integers, by carrying otherwise.
RenderSucc(d) ==
    IF Len(d) <= 9 THEN Decimal(DigitsValue(d) + 1) ELSE DecimalSucc(StripZeros(d))

C3_Expected(v) ==
    IF v = <<>> \/ v[Len(v)] \notin Digits THEN ErrUnknownVersionFormat
    ELSE LET d == TrailingRun(v)
         IN  Ok(SubSeq(v, 1, Len(v) - Len(d)) \o RenderSucc(d))

\* C3: increment_version(v) is UnknownVersionFormat when v does not end in an
\* ASCII digit, and otherwise v's prefix followed by the decimal rendering of
\* its trailing digit run's value plus one.
C3_IncrementResult ==
    incResult # IncNone => incResult = C3_Expected(incText)

\* The same statement for the digit runs whose value is below u32::MAX.
C3_IncrementResultBelowU32Max ==
    (incResult # IncNone /\ ~AboveU32(StripZeros(TrailingRun(incText)))
        /\ StripZeros(TrailingRun(incText)) # U32_MAX)
    => incResult = C3_Expected(incText)

C3_Witness ==
    /\ incText = <<"0", ".", "1", ".", "1", "5">>
    /\ incResult = Ok(<<"0", ".", "1", ".", "1", "6">>)

-----------------------------------------------------------------------------
(* C4 *)

LessOrEqual(order) == order \in {Less, Equal}

\* C4: the version-name comparison is a total preorder: reflexive, Greater one
\* way exactly when Less the other way, Equal only for names with the same
\* dot-separated segments, and transitive.
C4_TotalPreorder ==
    cmpResult # CmpNone =>
        /\ cmpResult.ab \in {Less, Equal, Greater}
        /\ version_a = version_b => cmpResult.ab = Equal
        /\ cmpResult.ab = Greater <=> cmpResult.ba = Less
        /\ cmpResult.ab = Equal => split(version_a, DOT) = split(version_b, DOT)
        /\ cmpResult.closure_ab = cmpResult.ab
        /\ \A c \in CmpStrings :
              (LessOrEqual(cmpResult.ab) /\ LessOrEqual(compare_version_names(version_b, c)))
                  => LessOrEqual(compare_version_names(version_a, c))

\* compare("0.1.15b", "0.1.15") has returned Greater, and the reverse Less.
C4_Witness ==
    /\ version_a = <<"0", ".", "1", ".", "1", "5", "b">>
    /\ version_b = <<"0", ".", "1", ".", "1", "5">>
    /\ cmpResult # CmpNone
    /\ cmpResult.ab = Greater
    /\ cmpResult.ba = Less

-----------------------------------------------------------------------------
(* C5 *)

\* x is before y in the lexicographic order of their bytes.
LexLess(x, y) ==
    \E k \in 1..Len(y) :
        /\ Len(x) >= k - 1
        /\ SubSeq(x, 1, k - 1) = SubSeq(y, 1, k - 1)
        /\ (Len(x) = k - 1 \/ Byte(x[k]) < Byte(y[k]))

\* The order of the claim: the first differing pair of corresponding segments
\* decides, by the lexicographic order of strings; with none differing, the
\* name with more segments is greater.
SegmentOrder(a, b) ==
    LET sa == split(a, DOT)
        sb == split(b, DOT)
        differing == {i \in 1..Len(sa) : i <= Len(sb) /\ sa[i] # sb[i]}
    IN  IF differing # {}
        THEN IF LexLess(sa[Min(differing)], sb[Min(differing)]) THEN Less ELSE Greater
        ELSE IF Len(sa) > Len(sb) THEN Greater
        ELSE IF Len(sa) < Len(sb) THEN Less
        ELSE Equal

\* C5: names are ordered segment by segment, lexicographically ("9" is
\* greater than "10"), more segments winning a tie; find_latest_version
\* returns None for no input and otherwise a maximum of its input.
C5_LatestIsMaximum ==
    latestResult # LatestNone =>
        /\ latestResult.some <=> versions # <<>>
        /\ latestResult.some =>
              /\ latestResult.value \in Items(versions)
              /\ \A v \in Items(versions) : SegmentOrder(latestResult.value, v) # Less
        /\ \A a \in Items(versions), b \in Items(versions) :
              max_by_closure(a, b) = SegmentOrder(a, b)
        /\ Items(versions) = {<<"9">>, <<"1", "0">>}
              => latestResult.value = <<"9">>
        /\ Items(versions) = {<<"0", ".", "1", ".", "1">>, <<"0", ".", "1", ".", "1", "5">>}
              => latestResult.value = <<"0", ".", "1", ".", "1", "5">>
        /\ Items(versions) = {<<"0", ".", "1">>, <<"0", ".", "1", ".", "1", "5">>}
              => latestResult.value = <<"0", ".", "1", ".", "1", "5">>
        /\ Items(versions) = {<<"0", ".", "1", ".", "1", "5", "b">>, <<"0", ".", "1", ".", "1", "5">>}
              => latestResult.value = <<"0", ".", "1", ".", "1", "5", "b">>

\* The latest of "10", "9" and "0.10" has been found: "9".
C5_Witness ==
    /\ versions = <<<<"1", "0">>, <<"9">>, <<"0", ".", "1", "0">>>>
    /\ latestResult = Some(<<"9">>)

-----------------------------------------------------------------------------
(* C6 *)

\* The errors of the checks that come before the choice of the version.
EarlierErrors ==
    {"RepositoryDoesNotExist", "SourceDoesNotExist", "InvalidPackageName",
     "InvalidPackageVersion", "PackageAlreadyExists", "PackageDoesNotExist"}

\* The names of the subdirectories that held a version.toml when the call began.
ExistingAtCall == {n \in DOMAIN treeAtCall.verDirs : treeAtCall.verDirs[n].toml}

\* What the choice of the version came to.
SelectionOutcome == IF pubPc = "selected" THEN Ok(new_version) ELSE Err(pubError)

\* C6: without a version argument the new version is "0.0.1" for a package
\* with no version directory, and otherwise the increment of the latest
\* existing version name; an UnknownVersionFormat of the increment ends the
\* publish with no version directory created.
C6_AutomaticVersion ==
    (/\ pubPc \in {"selected", "failed"}
     /\ ~pubArgs.version.some
     /\ pubError \notin EarlierErrors \cup {"Io"})
    => IF ExistingAtCall = {}
       THEN pubPc = "selected" /\ new_version = <<"0", ".", "0", ".", "1">>
       ELSE LET latest == CHOOSE l \in ExistingAtCall :
                              \A v \in ExistingAtCall : SegmentOrder(l, v) # Less
            IN  /\ SelectionOutcome \in increment_version(latest)
                /\ pubPc = "failed" => verDirs = treeAtCall.verDirs

\* The latest version "0.9" has been incremented to "0.10".
C6_Witness ==
    /\ pubPc = "selected"
    /\ ~pubArgs.version.some
    /\ ExistingAtCall = {<<"0", ".", "9">>}
    /\ new_version = <<"0", ".", "1", "0">>

\* A package without versions gets "0.0.1".
C6_WitnessFirst ==
    /\ pubPc = "selected"
    /\ ~pubArgs.version.some
    /\ ExistingAtCall = {}
    /\ new_version = <<"0", ".", "0", ".", "1">>

\* The latest version "0.9" beside "0.1a": the increment fails for "0.1a" alone.
C6_WitnessUnknownFormat ==
    /\ pubPc = "failed"
    /\ pubError = "UnknownVersionFormat"
    /\ ExistingAtCall = {<<"0", ".", "1", "a">>}

-----------------------------------------------------------------------------
(* C7 *)

\* A glob component against a path component: '?' is any character, '*' any run.
RECURSIVE WildMatch(_, _)
WildMatch(g, f) ==
    IF g = <<>> THEN f = <<>>
    ELSE IF Head(g) = "*"
         THEN \E k \in 0..Len(f) : WildMatch(Tail(g), Drop(f, k))
         ELSE /\ f # <<>>
              /\ Head(g) = "?" \/ Head(g) = Head(f)
              /\ WildMatch(Tail(g), Tail(f))

\* Matching with literal separators: the glob and the path have the same
\* number of '/'-separated components, and these match one by one.
ComponentwiseMatch(glob, path) ==
    LET gc == split(glob, <<"/">>)
        fc == split(path, <<"/">>)
    IN  /\ Len(gc) = Len(fc)
        /\ \A i \in 1..Len(gc) : WildMatch(gc[i], fc[i])

\* The map in force for the version: its own if it has one, else the package's.
EffectiveConfig == IF verEntrypoints.some THEN verEntrypoints ELSE pkgEntrypoints

ExpectedSections(path) ==
    IF ~EffectiveConfig.some THEN {}
    ELSE {section \in DOMAIN EffectiveConfig.value :
             \E i \in 1..Len(EffectiveConfig.value[section]) :
                 ComponentwiseMatch(EffectiveConfig.value[section][i], path)}

\* C7: a classified source is in exactly the sections with a pattern that
\* matches its path relative to the version, a '*' never matching across '/':
\* under main = ["scripts/*.lua"], scripts/foo.lua is in {main} and
\* scripts/sub/foo.lua in no section.
C7_Classification ==
    /\ \A path \in DOMAIN srcSections : srcSections[path] = ExpectedSections(path)
    /\ EffectiveConfig = Some(Map1("main", <<P_SCRIPTS_LUA>>)) =>
          /\ F_SCRIPTS_FOO \in DOMAIN srcSections => srcSections[F_SCRIPTS_FOO] = {"main"}
          /\ F_SCRIPTS_SUB_FOO \in DOMAIN srcSections => srcSections[F_SCRIPTS_SUB_FOO] = {}

C7_Witness ==
    /\ pkg_type = "script"
    /\ EffectiveConfig = Some(Map1("main", <<P_SCRIPTS_LUA>>))
    /\ DOMAIN srcSections = {F_SCRIPTS_FOO, F_SCRIPTS_SUB_FOO}
    /\ srcSections[F_SCRIPTS_FOO] = {"main"}
    /\ srcSections[F_SCRIPTS_SUB_FOO] = {}

-----------------------------------------------------------------------------
(* C8 *)

\* The patterns a compiled map was built from.
GlobsOf(entrypoints) ==
    [section \in DOMAIN entrypoints |->
        [i \in 1..Len(entrypoints[section]) |-> entrypoints[section][i].glob]]

\* C8: the map in force is the version's own whenever the version has one,
\* even an empty one, and the package's only when the version has none; a
\* section of the package's map alone gives nothing to a version with a map.
C8_VersionMapReplaces ==
    idxEntrypoints.called =>
        /\ verEntrypoints.some =>
              /\ idxEntrypoints.value.some
              /\ GlobsOf(idxEntrypoints.value.value) = verEntrypoints.value
              /\ \A path \in DOMAIN srcSections :
                    srcSections[path] \subseteq DOMAIN verEntrypoints.value
        /\ ~verEntrypoints.some =>
              /\ idxEntrypoints.value.some <=> pkgEntrypoints.some
              /\ pkgEntrypoints.some =>
                    GlobsOf(idxEntrypoints.value.value) = pkgEntrypoints.value

\* A version with a map of one empty list, in a package with patterns for two
\* sections: the version's map is in force.
C8_Witness ==
    /\ idxEntrypoints.called
    /\ verEntrypoints = Some(Map1("main", <<>>))
    /\ pkgEntrypoints = Some(Map2(<<P_SCRIPTS_LUA>>, <<P_LUA>>))
    /\ idxEntrypoints.value.some
    /\ DOMAIN idxEntrypoints.value.value = {"main"}

-----------------------------------------------------------------------------
(* C9 *)

EntrypointErrors ==
    {"NoEntrypointsDefinedForScriptPackage", "NoEntrypointsFoundForScriptPackage"}

HasNonEmptyList(config) ==
    config.some /\ \E section \in DOMAIN config.value : Len(config.value[section]) > 0

\* The three conditions of the claim.
ScriptConditions ==
    /\ EffectiveConfig.some
    /\ HasNonEmptyList(EffectiveConfig)
    /\ \E path \in sourcePaths : ExpectedSections(path) # {}

C9_WitnessOk ==
    /\ pkg_type = "script"
    /\ idxResult = "Ok"
    /\ \E path \in sourcePaths : srcSections[path] = {}
    /\ \E path \in sourcePaths : srcSections[path] # {}

-----------------------------------------------------------------------------
(* C10 *)

C10_WitnessAccepted ==
    /\ pkg_type = "extension"
    /\ EffectiveConfig = Some(Map2(<<>>, <<>>))
    /\ idxResult = "Ok"
    /\ Cardinality(DOMAIN srcSections) = 2

-----------------------------------------------------------------------------
(* The generated index *)

GenDone == genResult.tag # "None"
GenOk == genResult.tag = "Ok"

\* The elements of the index that was returned, each with its position.
CategoryIndexes == IF GenOk THEN DOMAIN genResult.value.categories ELSE {}
CategoryAt(c) == genResult.value.categories[c]
ReapackIndexes == {<<c, p>> : c \in CategoryIndexes, p \in 1..MaxEntries + MaxPackages}
                  \cap UNION {{<<c, p>> : p \in DOMAIN CategoryAt(c).packages} : c \in CategoryIndexes}
ReapackAt(cp) == CategoryAt(cp[1]).packages[cp[2]]
VersionIndexes == UNION {{<<cp, v>> : v \in DOMAIN ReapackAt(cp).versions} : cp \in ReapackIndexes}
VersionAt(cpv) == ReapackAt(cpv[1]).versions[cpv[2]]
SourceIndexes == UNION {{<<cpv, s>> : s \in DOMAIN VersionAt(cpv).sources} : cpv \in VersionIndexes}
SourceAt(cpvs) == VersionAt(cpvs[1]).sources[cpvs[2]]

\* The packages and the versions discovery finds in the repository: the entries
\* that are directories holding a config file that parses.
IsListed(entry) == entry.entry = "Ok" /\ entry.metadata = "dir" /\ entry.toml.state = "table"
ParsablePackage(entry) ==
    /\ IsListed(entry)
    /\ entry.toml.category.some
    /\ entry.toml.type \in PackageType
    /\ entry.toml.entrypoints.some => DOMAIN entry.toml.entrypoints.value \subseteq ActionListSection
ParsableVersion(entry) ==
    /\ IsListed(entry)
    /\ entry.toml.time
    /\ entry.toml.entrypoints.some => DOMAIN entry.toml.entrypoints.value \subseteq ActionListSection
RepoPackages == {i \in DOMAIN repo.dir.entries : ParsablePackage(repo.dir.entries[i])}
PackageVersions(i) ==
    {j \in DOMAIN repo.dir.entries[i].versions.entries :
        ParsableVersion(repo.dir.entries[i].versions.entries[j])}
RepoVersions == UNION {{<<i, j>> : j \in PackageVersions(i)} : i \in RepoPackages}
VersionDir(ij) == repo.dir.entries[ij[1]].versions.entries[ij[2]]
VersionPath(ij) == <<repo.dir.entries[ij[1]].name, VersionDir(ij).name>>

-----------------------------------------------------------------------------
(* C11 *)

\* The brace-delimited placeholders of a pattern, in order: for every opening
\* brace, the text up to the next closing brace.
Placeholders(pattern) ==
    LET opens == {i \in 1..Len(pattern) : pattern[i] = "{"}
        close(i) == Min({j \in i..Len(pattern) : pattern[j] = "}"})
        nth(k) == CHOOSE i \in opens : Cardinality({o \in opens : o < i}) = k - 1
    IN  [k \in 1..Cardinality(opens) |-> SubSeq(pattern, nth(k) + 1, close(nth(k)) - 1)]

UnknownPlaceholders(pattern) ==
    {k \in Items(Placeholders(pattern)) : k # K_RELPATH /\ k # K_GIT_COMMIT}

\* The first placeholder of the pattern that has no value in this repository.
HasNoValue(k) ==
    \/ k \in UnknownPlaceholders(repo.url_pattern)
    \/ k = K_GIT_COMMIT /\ repo.git # "Ok"
FirstWithoutValue ==
    LET ks == Placeholders(repo.url_pattern)
        first == Min({i \in DOMAIN ks : HasNoValue(ks[i])})
    IN  ks[first]

\* C11, as stated: rendering a source URL from a pattern with a placeholder
\* other than {relpath} and {git_commit} fails with an unknown-variable error
\* naming that placeholder, and index generation returns that error.
C11_Original ==
    GenDone /\ genResult.st.renders >= 1 /\ UnknownPlaceholders(repo.url_pattern) # {}
    => /\ genResult.tag = "MissingKey"
       /\ genResult.value \in UnknownPlaceholders(repo.url_pattern)

\* C11, amended: when a source URL is rendered from a pattern with a
\* placeholder other than {relpath} and {git_commit}, the first render fails
\* with a missing-key error naming the first placeholder of the pattern that
\* has no value (the unknown placeholder, or {git_commit} when it stands before
\* it and git fails), and index generation returns that error; a URL that is
\* rendered holds no placeholder.
C11_UnknownVariable ==
    /\ GenDone /\ genResult.st.renders >= 1 /\ UnknownPlaceholders(repo.url_pattern) # {}
       => /\ genResult.tag = "MissingKey"
          /\ genResult.value = FirstWithoutValue
          /\ genResult.st.renders = 1
    /\ \A s \in SourceIndexes :
          /\ UnknownPlaceholders(repo.url_pattern) = {}
          /\ ~Contains(SourceAt(s).url, OPEN_BRACE)
          /\ ~Contains(SourceAt(s).url, CLOSE_BRACE)

C11_Witness ==
    /\ genResult.tag = "MissingKey"
    /\ genResult.value = <<"f", "o", "o">>
    /\ genResult.st.renders = 1
    /\ repo.url_pattern = U_FOO

C11_WitnessGitFirst ==
    /\ genResult.tag = "MissingKey"
    /\ genResult.value = K_GIT_COMMIT
    /\ repo.url_pattern = U_GIT_FOO

-----------------------------------------------------------------------------
(* C12: the value substituted for {relpath} *)

\* The bytes of a text, and the bytes a percent-encoded text stands for: a
\* '%' with the two hex digits after it is one byte, any other character is
\* its own bytes.
RECURSIVE Utf8Bytes(_)
Utf8Bytes(input) == IF input = <<>> THEN <<>> ELSE Utf8(Head(input)) \o Utf8Bytes(Tail(input))

HexValue(d) == (CHOOSE i \in 1..Len(HexDigits) : HexDigits[i] = d) - 1

RECURSIVE PercentDecoded(_)
PercentDecoded(encoded) ==
    IF encoded = <<>> THEN <<>>
    ELSE IF Head(encoded) = "%" /\ Len(encoded) >= 3
    THEN <<16 * HexValue(encoded[2]) + HexValue(encoded[3])>> \o PercentDecoded(SubSeq(encoded, 4, Len(encoded)))
    ELSE Utf8(Head(encoded)) \o PercentDecoded(Tail(encoded))

Unreserved(byte) == is_ascii_alphanumeric(byte) \/ byte \in {47, 46, 45, 95}

EncodedLen(bytes) ==
    Cardinality({i \in DOMAIN bytes : Unreserved(bytes[i])})
    + 3 * Cardinality({i \in DOMAIN bytes : ~Unreserved(bytes[i])})

\* C12: what url_encode_path returns for a path stands, once percent-decoded,
\* for the bytes of the normalized path (no '.' component, '..' only in front);
\* it keeps ASCII alphanumerics and '/', '.', '-', '_' as they are and writes
\* every other byte as '%' and two hex digits, so "a b/c.lua" gives
\* "a%20b/c.lua"; every call with the same path returns the same text.
C12_RelpathEncoding ==
    \A i \in DOMAIN encResult :
        LET bytes == Utf8Bytes(normalize(encPath))
            comps == components(encResult[i])
        IN  /\ PercentDecoded(encResult[i]) = bytes
            /\ Len(encResult[i]) = EncodedLen(bytes)
            /\ \A k \in DOMAIN encResult[i] :
                   encResult[i][k] = "%" \/ Unreserved(Utf8(encResult[i][k])[1])
            /\ \A k \in DOMAIN comps :
                   /\ comps[k] # CUR_STR
                   /\ comps[k] = PARENT_STR => \A h \in 1..k : comps[h] = PARENT_STR
            /\ encPath = S_A_B_C_LUA => encResult[i] = S_ENCODED_A_B_C_LUA
            /\ \A j \in DOMAIN encResult : encResult[j] = encResult[i]

\* Two calls for "./a/../b c", each returning "b%20c".
C12_Witness ==
    /\ encPath = <<".", "/", "a", "/", ".", ".", "/", "b", " ", "c">>
    /\ Len(encResult) >= 2
    /\ encResult[1] = <<"b", "%", "2", "0", "c">>
    /\ encResult[2] = encResult[1]

\* The example of the claim: "a b/c.lua" has been encoded as "a%20b/c.lua".
C12_WitnessExample ==
    /\ encPath = S_A_B_C_LUA
    /\ encResult # <<>>
    /\ encResult[1] = S_ENCODED_A_B_C_LUA

-----------------------------------------------------------------------------
(* C13: the revision id *)

UsesGitCommit == K_GIT_COMMIT \in Items(Placeholders(repo.url_pattern))

\* C13: in one generate_index run git is launched at most once, however many
\* source URLs are rendered, and never when the URL pattern has no
\* {git_commit}; a run is failed by git (a missing-key error for git_commit)
\* only when the pattern has {git_commit}, and then a launch that fails does
\* fail the run; a revision id that was obtained is in every URL as it is.
C13_GitAtMostOnce ==
    GenDone =>
        /\ genResult.st.git_calls <= 1
        /\ ~UsesGitCommit =>
              /\ genResult.st.git_calls = 0
              /\ ~(genResult.tag = "MissingKey" /\ genResult.value = K_GIT_COMMIT)
        /\ genResult.st.git_calls = 1 /\ repo.git # "Ok" =>
              /\ genResult.tag = "MissingKey"
              /\ genResult.value = K_GIT_COMMIT
        /\ genResult.tag = "MissingKey" /\ genResult.value = K_GIT_COMMIT =>
              /\ repo.git # "Ok"
              /\ genResult.st.git_calls = 1
        /\ UsesGitCommit => \A s \in SourceIndexes : Contains(SourceAt(s).url, GIT_HASH)

\* An index whose URLs hold the revision id: several sources were rendered and
\* git was launched once.
C13_Witness ==
    /\ GenOk
    /\ UsesGitCommit
    /\ genResult.st.renders >= 2
    /\ genResult.st.git_calls = 1
    /\ Cardinality(SourceIndexes) >= 2

\* A run where git cannot be launched and the pattern has no {git_commit}: the
\* index is generated.
C13_WitnessUnused ==
    /\ GenOk
    /\ repo.git # "Ok"
    /\ ~UsesGitCommit
    /\ genResult.st.renders >= 1
    /\ genResult.st.git_calls = 0

\* A run failed by git.
C13_WitnessFailure ==
    /\ genResult.tag = "MissingKey"
    /\ genResult.value = K_GIT_COMMIT
    /\ repo.url_pattern = U_GIT

-----------------------------------------------------------------------------
(* C14: one Script package, one version, two source files *)

\* The files of a version directory other than its version.toml.
AuthoredFiles(ver_entry) == SelectSeq(ver_entry.files, LAMBDA f : f # S_VERSION_TOML)

\* Whether a file of the version matches the effective entrypoint patterns.
MatchesEntrypoints(pkg_entry, ver_entry, f) ==
    sections_init(pkg_entry.toml.type,
                  version_entrypoints(ver_entry.toml.entrypoints, pkg_entry.toml.entrypoints),
                  f).value # {}

\* The repository of the claim: one package, of type script, with one version
\* directory holding, next to its version.toml, one file that matches the
\* entrypoint patterns and one that does not; the URL pattern can be rendered
\* and no README needs a converter that is missing.
C14_Repository ==
    /\ Len(repo.dir.entries) = 1
    /\ RepoPackages = {1}
    /\ repo.dir.entries[1].toml.type = "script"
    /\ Len(repo.dir.entries[1].versions.entries) = 1
    /\ PackageVersions(1) = {1}
    /\ LET pkg_entry == repo.dir.entries[1]
           ver_entry == pkg_entry.versions.entries[1]
           files == AuthoredFiles(ver_entry)
       IN  /\ S_CHANGELOG_TXT \notin Items(files)
           /\ Cardinality({i \in DOMAIN files : MatchesEntrypoints(pkg_entry, ver_entry, files[i])}) = 1
           /\ Cardinality({i \in DOMAIN files : ~MatchesEntrypoints(pkg_entry, ver_entry, files[i])}) = 1
    /\ UnknownPlaceholders(repo.url_pattern) = {}
    /\ UsesGitCommit => repo.git = "Ok"
    /\ repo.readme = "md" => repo.pandoc = "Ok"

SourcesWithMain == {s \in SourceIndexes : SourceAt(s).main # {}}

\* C14, as stated: for a repository with one Script package, one version
\* directory, one source file that matches the entrypoint patterns and one that
\* does not, generate_index gives an index with exactly one category element,
\* one reapack element, one version element and two source elements, exactly
\* one of them with the main attribute.
C14_EndToEnd ==
    GenDone /\ C14_Repository =>
        /\ GenOk
        /\ Cardinality(CategoryIndexes) = 1
        /\ Cardinality(ReapackIndexes) = 1
        /\ Cardinality(VersionIndexes) = 1
        /\ Cardinality(SourceIndexes) = 2
        /\ Cardinality(SourcesWithMain) = 1

\* What the code does for that repository: one category, one reapack, one
\* version, one source element with main, and a source element for every
\* regular file of the version directory, version.toml among them.
C14_EndToEndEveryFile ==
    GenDone /\ C14_Repository =>
        /\ GenOk
        /\ Cardinality(CategoryIndexes) = 1
        /\ Cardinality(ReapackIndexes) = 1
        /\ Cardinality(VersionIndexes) = 1
        /\ Cardinality(SourceIndexes) = Len(repo.dir.entries[1].versions.entries[1].files)
        /\ Cardinality(SourceIndexes) = IF repo.dir.entries[1].versions.entries[1].symlink THEN 2 ELSE 3
        /\ Cardinality(SourcesWithMain) = 1

\* The index of such a repository with three source elements.
C14_WitnessThreeSources ==
    /\ C14_Repository
    /\ GenOk
    /\ Cardinality(SourceIndexes) = 3
    /\ \E s \in SourceIndexes : Contains(SourceAt(s).file, S_VERSION_TOML)

-----------------------------------------------------------------------------
(* C15: the category elements *)

\* The package directory a reapack element was made from.
ReapackEntry(cp) == CHOOSE i \in RepoPackages : repo.dir.entries[i].name = ReapackAt(cp).path

PackageCategory(i) == repo.dir.entries[i].toml.category.value

\* C15, as stated: in a generated index every discovered package is under
\* exactly one category element, the name of that element is the normalized
\* category of the package, and two packages whose categories are equal after
\* normalization ("a/b" and "a/./b") are under the same category element.
C15_CategoriesNormalized ==
    GenOk =>
        /\ \A i \in RepoPackages :
              Cardinality({cp \in ReapackIndexes : ReapackEntry(cp) = i}) = 1
        /\ \A cp \in ReapackIndexes :
              CategoryAt(cp[1]).name = normalize(PackageCategory(ReapackEntry(cp)))
        /\ \A cp, cq \in ReapackIndexes :
              normalize(PackageCategory(ReapackEntry(cp))) = normalize(PackageCategory(ReapackEntry(cq)))
              => cp[1] = cq[1]

\* What the code does: the category elements are keyed by the category as the
\* package.toml has it, two keys being one when their components are the same
\* ('.' is a component, an empty piece is not); the name of the element is the
\* category of its first package as written.
C15_CategoriesAsWritten ==
    GenOk =>
        /\ \A i \in RepoPackages :
              Cardinality({cp \in ReapackIndexes : ReapackEntry(cp) = i}) = 1
        /\ \A cp \in ReapackIndexes :
              /\ components(CategoryAt(cp[1]).name) = components(PackageCategory(ReapackEntry(cp)))
              /\ CategoryAt(cp[1]).name = PackageCategory(ReapackEntry(CHOOSE cq \in ReapackIndexes :
                                                             cq[1] = cp[1] /\ cq[2] = 1))
        /\ \A cp, cq \in ReapackIndexes :
              components(PackageCategory(ReapackEntry(cp))) = components(PackageCategory(ReapackEntry(cq)))
              <=> cp[1] = cq[1]

\* An index with the categories "a/b" and "a/./b" as two category elements.
C15_WitnessTwoElements ==
    /\ GenOk
    /\ \E c, d \in CategoryIndexes :
          /\ CategoryAt(c).name = S_A_B
          /\ CategoryAt(d).name = S_A_DOT_B
    /\ Cardinality(CategoryIndexes) = 2

-----------------------------------------------------------------------------
(* C16: a category with a parent-directory segment *)

HasParentDir(category) == PARENT_STR \in Items(components(category))
LeadingParentDir(category) ==
    components(category) # <<>> /\ components(category)[1] = PARENT_STR

\* The discovered packages whose category ascends above itself.
EscapingPackages == {i \in RepoPackages : LeadingParentDir(normalize(PackageCategory(i)))}

\* C16, as stated: a run over a repository with a package whose category has a
\* '..' segment that ascends above itself returns an error value (the process
\* is not aborted), and no category element of an index has a name with a
\* leading '..' segment.
C16_CategoryEscape ==
    GenDone =>
        /\ EscapingPackages # {} => genResult.tag \notin {"Ok", "Panic"}
        /\ \A c \in CategoryIndexes : ~LeadingParentDir(CategoryAt(c).name)

\* What the code does: the only check of the category is the loop that builds
\* a source's file attribute, which panics at a '..' component; an index is
\* returned when no source of such a package is reached, and the category is
\* then emitted as written.
C16_CategoryPanics ==
    GenDone =>
        /\ genResult.tag = "Panic" => HasParentDir(genResult.value)
        /\ \A s \in SourceIndexes :
              ~HasParentDir(CategoryAt(s[1][1][1]).name)
        /\ \A i \in RepoPackages :
              HasParentDir(PackageCategory(i)) /\ GenOk
              => \E cp \in ReapackIndexes :
                    /\ ReapackEntry(cp) = i
                    /\ ReapackAt(cp).versions = <<>>
                    /\ HasParentDir(CategoryAt(cp[1]).name)

\* The run over a package of category ".." with a source ends in a panic.
C16_WitnessPanic ==
    /\ genResult.tag = "Panic"
    /\ genResult.value = S_PARENT

\* An index with a category element named "..".
C16_WitnessEmitted ==
    /\ GenOk
    /\ \E c \in CategoryIndexes : CategoryAt(c).name = S_PARENT

-----------------------------------------------------------------------------
(* C17: an invalid enum token *)

InvalidSection(toml) ==
    toml.entrypoints.some /\ ~(DOMAIN toml.entrypoints.value \subseteq ActionListSection)

\* The package directories whose package.toml has a kind or a section name
\* that is not one of the tokens, and the version directories, in packages that
\* are read, whose version.toml has such a section name.
InvalidTokenPackages ==
    {i \in DOMAIN repo.dir.entries :
        /\ IsListed(repo.dir.entries[i])
        /\ repo.dir.entries[i].toml.category.some
        /\ repo.dir.entries[i].toml.type \notin PackageType \/ InvalidSection(repo.dir.entries[i].toml)}
InvalidTokenVersions ==
    UNION {{<<i, j>> : j \in {j \in DOMAIN repo.dir.entries[i].versions.entries :
                                /\ IsListed(repo.dir.entries[i].versions.entries[j])
                                /\ repo.dir.entries[i].versions.entries[j].toml.time
                                /\ InvalidSection(repo.dir.entries[i].versions.entries[j].toml)}}
           : i \in RepoPackages}

\* C17, as stated: a repository with a package.toml or a version.toml holding
\* an invalid enum token makes the export run fail; no index is produced
\* without that entity.
C17_InvalidTokenFatal ==
    GenDone /\ (InvalidTokenPackages # {} \/ InvalidTokenVersions # {}) => ~GenOk

\* What the code does: the package or version with the invalid token fails to
\* read, discovery logs a warning and goes on, and an index that is generated
\* is without that entity.
C17_InvalidTokenSkipped ==
    GenOk =>
        /\ \A i \in InvalidTokenPackages :
              /\ \A cp \in ReapackIndexes : ReapackAt(cp).path # repo.dir.entries[i].name
              /\ Warning("failed to read package", repo.dir.entries[i].name)
                     \in Items(genResult.st.warnings)
        /\ \A ij \in InvalidTokenVersions :
              /\ \A cpv \in VersionIndexes :
                    ~(ReapackAt(cpv[1]).path = VersionPath(ij)[1] /\ VersionAt(cpv).name = VersionPath(ij)[2])
              /\ Warning("failed to read version", VersionPath(ij)[2]) \in Items(genResult.st.warnings)

\* An index generated from a repository with a package of type "Script".
C17_WitnessPackageSkipped ==
    /\ GenOk
    /\ \E i \in InvalidTokenPackages : repo.dir.entries[i].toml.type = "Script"
    /\ ReapackIndexes # {}

\* An index generated from a repository with a version whose section is "Main".
C17_WitnessVersionSkipped ==
    /\ GenOk
    /\ InvalidTokenVersions # {}
    /\ VersionIndexes # {}

-----------------------------------------------------------------------------
(* C18: discovery of packages and versions *)

DiscDone == discResult.tag # "None"

\* An entry that is a directory with a marker config file that parses.
WellFormed(entry) ==
    IF dirEntries.of = "repository" THEN ParsablePackage(entry) ELSE ParsableVersion(entry)

\* An entry skipped without a word: it is not a directory, or has no marker.
SilentlySkipped(entry) ==
    /\ entry.entry = "Ok"
    /\ entry.metadata = "file" \/ (entry.metadata = "dir" /\ entry.toml.state = "absent")

Names(entries) == [i \in DOMAIN entries |-> entries[i].name]
ResultNames == [i \in DOMAIN discResult.value |-> discResult.value[i].path]
WarningNames == [i \in DOMAIN discResult.warnings |-> discResult.warnings[i].name]

\* C18: listing the packages of a repository, or the versions of a package,
\* returns exactly the entries that are directories with a marker config that
\* parses, in the order of the listing, whatever their siblings are; an entry
\* that is not a directory or has no marker is skipped without a warning, and
\* every other entry left out has one warning.
C18_DiscoveryIsolation ==
    DiscDone /\ dirEntries.read_dir =>
        /\ discResult.tag = "Ok"
        /\ ResultNames = Names(SelectSeq(dirEntries.entries, WellFormed))
        /\ WarningNames = Names(SelectSeq(dirEntries.entries,
                                   LAMBDA e : ~WellFormed(e) /\ ~SilentlySkipped(e)))
        /\ \A i \in DOMAIN discResult.warnings :
              discResult.warnings[i].message \in
                  {"failed to read entry", "failed to get metadata for entry",
                   IF dirEntries.of = "repository" THEN "failed to read package"
                   ELSE "failed to read version"}

\* A listing of three entries, the second with a config that does not parse:
\* the first and the third are returned, with one warning for the second.
C18_Witness ==
    /\ DiscDone
    /\ Len(dirEntries.entries) = 3
    /\ WellFormed(dirEntries.entries[1])
    /\ dirEntries.entries[2].toml.state = "syntax_error"
    /\ WellFormed(dirEntries.entries[3])
    /\ ResultNames = <<dirEntries.entries[1].name, dirEntries.entries[3].name>>
    /\ Len(discResult.warnings) = 1

\* A listing with a plain file and a directory without marker among a
\* well-formed entry: one entry returned, no warning.
C18_WitnessSilent ==
    /\ DiscDone
    /\ Len(dirEntries.entries) = 3
    /\ \E i, j, k \in 1..3 :
          /\ dirEntries.entries[i].metadata = "file"
          /\ dirEntries.entries[j].metadata = "dir" /\ dirEntries.entries[j].toml.state = "absent"
          /\ WellFormed(dirEntries.entries[k])
    /\ Len(discResult.value) = 1
    /\ discResult.warnings = <<>>

-----------------------------------------------------------------------------
(* C19: the file attribute *)

\* The version directory a version element was made from, and the file a
\* source element was made from.
VersionEntryOf(cpv) ==
    LET dirs == repo.dir.entries[ReapackEntry(cpv[1])].versions.entries
    IN  dirs[CHOOSE j \in DOMAIN dirs : dirs[j].name = VersionAt(cpv).name]
SourceFile(cpvs) == VersionEntryOf(cpvs[1]).files[cpvs[2]]

\* The number of components of a category, '.' and empty pieces not counted.
CategoryDepth(category) ==
    LET pieces == split(category, SLASH)
    IN  Cardinality({i \in DOMAIN pieces : pieces[i] # <<>> /\ pieces[i] # CUR_STR})

RECURSIVE ParentSegments(_)
ParentSegments(k) == IF k = 0 THEN <<>> ELSE <<".", ".", "/">> \o ParentSegments(k - 1)

IdentifierOf(i) ==
    IF repo.dir.entries[i].toml.identifier.some
    THEN repo.dir.entries[i].toml.identifier.value
    ELSE repo.dir.entries[i].name

\* C19: the file attribute of every source element is k '..' segments, k being
\* the number of components of the package's category ('.' not counted), then
\* the package identifier, then the path of the source from its version
\* directory.
C19_FileAttribute ==
    \A s \in SourceIndexes :
        LET i == ReapackEntry(s[1][1])
        IN  SourceAt(s).file =
                ParentSegments(CategoryDepth(PackageCategory(i)))
                \o IdentifierOf(i) \o SLASH \o SourceFile(s)

\* A package of category "a/./b": the file of its source is "../../p1/main.lua".
C19_Witness ==
    /\ GenOk
    /\ \E s \in SourceIndexes :
          /\ PackageCategory(ReapackEntry(s[1][1])) = S_A_DOT_B
          /\ SourceAt(s).file =
                <<".", ".", "/", ".", ".", "/", "p", "1", "/", "m", "a", "i", "n", ".", "l", "u", "a">>

\* A package with an identifier of its own, "x", in the category "a/b".
C19_WitnessIdentifier ==
    /\ GenOk
    /\ \E s \in SourceIndexes :
          /\ IdentifierOf(ReapackEntry(s[1][1])) = S_X
          /\ SourceAt(s).file =
                <<".", ".", "/", ".", ".", "/", "x", "/", "m", "a", "i", "n", ".", "l", "u", "a">>

-----------------------------------------------------------------------------
(* C20: a version without sources *)

Visited(ij) == VersionPath(ij) \in Items(genResult.st.visited)

\* C20, as stated: every version element of an index has at least one source
\* element, and the run fails for a discovered version whose directory has no
\* source file (no file but its version.toml), with NoSourcesFound for that
\* directory once the run comes to it.
C20_NoSources ==
    /\ \A cpv \in VersionIndexes : VersionAt(cpv).sources # <<>>
    /\ GenDone =>
          \A ij \in RepoVersions :
              AuthoredFiles(VersionDir(ij)) = <<>> =>
                  /\ ~GenOk
                  /\ Visited(ij) =>
                        /\ genResult.tag = "NoSourcesFound"
                        /\ genResult.value = VersionPath(ij)

\* What the code does: the same, for the versions whose directory has no
\* regular file at all; version.toml is one, so a directory with nothing but
\* its version.toml gives a version element with version.toml as its source.
C20_NoSourcesWalked ==
    /\ \A cpv \in VersionIndexes : VersionAt(cpv).sources # <<>>
    /\ GenDone =>
          \A ij \in RepoVersions :
              /\ VersionDir(ij).files = <<>> =>
                    /\ ~GenOk
                    /\ Visited(ij) =>
                          /\ genResult.tag = "NoSourcesFound"
                          /\ genResult.value = VersionPath(ij)
              /\ genResult.tag = "NoSourcesFound" /\ genResult.value = VersionPath(ij)
                    => VersionDir(ij).files = <<>> /\ VersionDir(ij).symlink

\* An index with a version element whose only source is its version.toml.
C20_WitnessConfigAsSource ==
    /\ GenOk
    /\ \E cpv \in VersionIndexes :
          /\ AuthoredFiles(VersionEntryOf(cpv)) = <<>>
          /\ Len(VersionAt(cpv).sources) = 1
          /\ Contains(VersionAt(cpv).sources[1].file, S_VERSION_TOML)

\* A run that fails with NoSourcesFound: the version.toml is a symbolic link.
C20_WitnessNoSourcesFound ==
    /\ genResult.tag = "NoSourcesFound"
    /\ \E ij \in RepoVersions : genResult.value = VersionPath(ij) /\ VersionDir(ij).symlink

-----------------------------------------------------------------------------
(* C22: increment_version and the width of u32 *)

EndsInDigit(v) == v # <<>> /\ v[Len(v)] \in Digits

\* C22, as stated: increment_version is Ok for every input that ends in an
\* ASCII digit, whatever the length or value of the trailing digit run; it
\* neither aborts nor wraps around: the run of the result is the run plus one.
C22_IncrementNeverAborts ==
    incResult # IncNone /\ EndsInDigit(incText) =>
        /\ incResult.tag = "Ok"
        /\ TrailingRun(incResult.value) = RenderSucc(TrailingRun(incText))

\* What the code does: Ok with the run plus one for a run below u32::MAX; at
\* u32::MAX the addition overflows (a panic, or "0" where overflow is not
\* checked), and above it the parse fails and unwrap panics.
C22_IncrementWithinU32 ==
    incResult # IncNone /\ EndsInDigit(incText) =>
        LET n == StripZeros(TrailingRun(incText))
        IN  IF AboveU32(n) THEN incResult = Panic
            ELSE IF n = U32_MAX
            THEN incResult = Panic
                 \/ incResult = Ok(SubSeq(incText, 1, Len(incText) - Len(TrailingRun(incText)))
                                   \o <<"0">>)
            ELSE /\ incResult.tag = "Ok"
                 /\ TrailingRun(incResult.value) = RenderSucc(TrailingRun(incText))

\* "20240101120000": the call panics.
C22_WitnessPanic ==
    /\ incText = <<"2", "0", "2", "4", "0", "1", "0", "1", "1", "2", "0", "0", "0", "0">>
    /\ incResult = Panic

\* "1.4294967295": the call returns "1.0".
C22_WitnessWrap ==
    /\ incText = <<"1", ".", "4", "2", "9", "4", "9", "6", "7", "2", "9", "5">>
    /\ incResult = Ok(<<"1", ".", "0">>)

-----------------------------------------------------------------------------
(* C24: the incremented version and the ordering *)

AllNines(d) == d # <<>> /\ \A i \in DOMAIN d : d[i] = "9"

\* C24, as stated: for every version v that ends in an ASCII digit,
\* increment_version(v) is Greater than v in the ordering of version names,
\* and is the latest of the two whichever comes first.
C24_IncrementIsGreater ==
    incResult # IncNone /\ EndsInDigit(incText) /\ incResult.tag = "Ok" =>
        /\ compare_version_names(incResult.value, incText) = Greater
        /\ find_latest_version(<<incText, incResult.value>>) = Some(incResult.value)
        /\ find_latest_version(<<incResult.value, incText>>) = Some(incResult.value)

\* What the code does: the segments are compared as strings, so the increment
\* is Less than v when the run of v is all nines ("9" gives "10", "0.99" gives
\* "0.100") or has wrapped to "0", and Greater otherwise.
C24_IncrementIsGreaterUnlessCarry ==
    incResult # IncNone /\ EndsInDigit(incText) /\ incResult.tag = "Ok" =>
        compare_version_names(incResult.value, incText) =
            IF AllNines(TrailingRun(incText)) \/ StripZeros(TrailingRun(incText)) = U32_MAX
            THEN Less ELSE Greater

\* "0.9" was incremented to "0.10", which is Less than "0.9".
C24_WitnessLess ==
    /\ incText = <<"0", ".", "9">>
    /\ incResult = Ok(<<"0", ".", "1", "0">>)
    /\ compare_version_names(incResult.value, incText) = Less
    /\ find_latest_version(<<incText, incResult.value>>) = Some(incText)

-----------------------------------------------------------------------------
(* C23: publishes without a version argument *)

\* The version directories whose version.toml has been written.
PublishedVersions == {n \in DOMAIN verDirs : verDirs[n].toml}

V_0_0_9 == <<"0", ".", "0", ".", "9">>
V_0_0_10 == <<"0", ".", "0", ".", "1", "0">>

\* C23, as stated: in a sequence of publishes without a version argument on a
\* package that had no version, the version a publish chooses is never the
\* name of a version that exists, so no published version is written over.
C23_AutomaticVersionIsNew ==
    pubPc \in {"selected", "copying", "done"} => new_version \notin ExistingAtCall

\* What the code does: the versions are "0.0.1" to "0.0.10"; the latest of
\* them is always "0.0.9" once it is there, the segments being compared as
\* strings, so every publish after "0.0.10" chooses "0.0.10" again.
C23_AutomaticVersionUpToTen ==
    /\ PublishedVersions \subseteq {<<"0", ".", "0", ".">> \o Decimal(k) : k \in 1..10}
    /\ pubPc \in {"selected", "copying", "done"} =>
          /\ new_version \in ExistingAtCall <=> V_0_0_10 \in ExistingAtCall
          /\ V_0_0_10 \in ExistingAtCall => new_version = V_0_0_10
          /\ V_0_0_9 \in ExistingAtCall => new_version = V_0_0_10

\* The eleventh publish has chosen "0.0.10", which the tenth made.
C23_WitnessOverwrite ==
    /\ pubPc = "done"
    /\ Cardinality(ExistingAtCall) = 10
    /\ new_version = V_0_0_10
    /\ V_0_0_10 \in ExistingAtCall
    /\ Cardinality(PublishedVersions) = 10

-----------------------------------------------------------------------------
(* C27: a publish that returns an error *)

\* The errors of publish that the command reports itself.
PublishErrors ==
    {"RepositoryDoesNotExist", "SourceDoesNotExist", "InvalidPackageName",
     "InvalidPackageVersion", "PackageAlreadyExists", "PackageDoesNotExist",
     "VersionAlreadyExists", "UnknownVersionFormat"}

\* The errors that are returned once the --new branch has run.
ErrorsAfterNew == {"VersionAlreadyExists", "UnknownVersionFormat"}

\* C27, as stated: a publish that returns one of its errors leaves the
\* repository tree as it was when the command started, with or without --new.
C27_FailedPublishLeavesTree ==
    pubPc = "failed" /\ pubError \in PublishErrors => Tree = treeAtCall

\* What the code does: the tree is as it was unless --new was given and the
\* error came from the choice of the version, in which case the package
\* directory and its package.toml have been made.
C27_FailedPublishTree ==
    pubPc = "failed" /\ pubError \in PublishErrors =>
        IF pubArgs.new /\ pubError \in ErrorsAfterNew
        THEN /\ ~treeAtCall.pkgToml
             /\ Tree = [treeAtCall EXCEPT !.pkgDir = TRUE, !.pkgToml = TRUE]
        ELSE Tree = treeAtCall

\* publish --new has failed with VersionAlreadyExists and left a package.toml.
C27_WitnessPackageCreated ==
    /\ pubPc = "failed"
    /\ pubArgs.new
    /\ pubError = "VersionAlreadyExists"
    /\ pkgToml
    /\ ~treeAtCall.pkgToml

\* publish --new has failed with UnknownVersionFormat and left a package.toml.
C27_WitnessUnknownFormat ==
    /\ pubPc = "failed"
    /\ pubArgs.new
    /\ pubError = "UnknownVersionFormat"
    /\ Tree # treeAtCall

-----------------------------------------------------------------------------
(* C25: version.toml and the copy of the source files *)

\* The call has made or found its version directory and has not written the
\* version.toml: the copy is going on, or has failed.
CopyUnderWay ==
    \/ pubPc = "copying"
    \/ pubPc = "failed" /\ pubError = "Io"

\* The version directory of the call does not hold every file of `path` as
\* this call copies it.
CopyIncomplete == CopyUnderWay /\ copied # SourceFiles(srcKind)

\* C25, as stated: while the copy of a publish is incomplete, and after it
\* has failed, the version directory has no version.toml, so discovery does
\* not return it and no index includes it.
C25_ConfigAfterCopy ==
    CopyIncomplete =>
        /\ ~verDirs[new_version].toml
        /\ new_version \notin get_version_paths(verDirs)

\* What the code does: the version.toml of this call is written after the
\* copy, so a directory with an incomplete copy has a version.toml exactly
\* when it had one before the call, which is when the version chosen
\* without a version argument is one that exists.
C25_ConfigAfterCopyOfNewVersion ==
    CopyIncomplete =>
        /\ verDirs[new_version].toml <=> new_version \in ExistingAtCall
        /\ new_version \in ExistingAtCall => ~pubArgs.version.some

\* The version.toml is written only by a call whose copy is complete.
C25_ConfigWrittenAfterCopy ==
    pubPc = "done" => copied = SourceFiles(srcKind) /\ verDirs[new_version].toml

\* A copy into a new version directory has failed part of the way: the
\* directory holds a file and no version.toml.
C25_WitnessFailedCopy ==
    /\ pubPc = "failed"
    /\ pubError = "Io"
    /\ copied # {}
    /\ copied # SourceFiles(srcKind)
    /\ ~verDirs[new_version].toml

\* A copy over a published version has failed part of the way: the directory
\* holds the version.toml of the earlier publish.
C25_WitnessFailedOverwrite ==
    /\ pubPc = "failed"
    /\ pubError = "Io"
    /\ copied # SourceFiles(srcKind)
    /\ verDirs[new_version].toml

-----------------------------------------------------------------------------
(* C26: the output file of Export *)

\* The packages and the versions of the index that was generated.
IndexedPackages == {ReapackAt(cp).path : cp \in ReapackIndexes}
IndexedVersions == {<<ReapackAt(cpv[1]).path, VersionAt(cpv).name>> : cpv \in VersionIndexes}

\* The index has an element for every package and every version that
\* discovery returns, and for nothing else.
CompleteIndex ==
    /\ GenOk
    /\ IndexedPackages = {repo.dir.entries[i].name : i \in RepoPackages}
    /\ IndexedVersions = {VersionPath(ij) : ij \in RepoVersions}

\* C26: an Export in which Repository::read or generate_index fails leaves
\* the output file as it was, absent or with its old content; the file is
\* written only with the index that was generated, which has every
\* discovered package and version.
C26_ExportAllOrNothing ==
    [][/\ genResult'.tag # "Ok" => output' = output
       /\ output' # output =>
             /\ output' = IndexFile(genResult'.value)
             /\ CompleteIndex']_vars

\* The same of the states: the file holds an index only after a run that
\* came to Ok, and then the file is that index.
C26_OutputIsTheIndex ==
    /\ GenDone /\ ~GenOk => output \in {NoOutput, OldOutput}
    /\ output.tag = "index" => CompleteIndex /\ output.value = genResult.value
    /\ GenOk => output = IndexFile(genResult.value)

\* A run failed in generate_index and the file that was there is as it was.
C26_Witness ==
    /\ repoConfig = "table"
    /\ GenDone
    /\ ~GenOk
    /\ output = OldOutput
    /\ RepoPackages # {}

\* A run failed in Repository::read and no file was made.
C26_WitnessNotARepository ==
    /\ genResult.tag = "NotARepository"
    /\ output = NoOutput

\* A run wrote an index of two packages over the file that was there.
C26_WitnessWritten ==
    /\ output.tag = "index"
    /\ Cardinality(IndexedPackages) = 2
    /\ Cardinality(IndexedVersions) >= 1

-----------------------------------------------------------------------------
(* C21: the cells of a run *)

MemoVersions == 1..Len(memo.config.versions)
MemoSources ==
    UNION {{<<v, s>> : s \in DOMAIN memo.config.versions[v].files} : v \in MemoVersions}

\* The reads of the sections of a source, in the order they were made.
ReadsOf(vs) == SelectSeq(memo.reads, LAMBDA r : r.ver = vs[1] /\ r.src = vs[2])

\* The sources whose sections were computed from the package's glob sets.
ClassifiedByPackage ==
    {vs \in MemoSources : /\ memo.computed[vs[1]][vs[2]] > 0
                          /\ ~memo.config.versions[vs[1]].entrypoints.some}

\* C21: in a run the closure of a package's entrypoints cell, of a version's
\* entrypoints cell and of a source's sections cell runs at most once each,
\* however many sources are classified and although the sections of a source
\* are read for its element and again for the check of a script package;
\* every read of the sections of a source returns what the first returned.
C21_ComputedAtMostOnce ==
    memo.pc # "off" =>
        /\ memo.compiled.pkg <= 1
        /\ \A v \in MemoVersions : memo.compiled.vers[v] <= 1
        /\ \A vs \in MemoSources :
              /\ memo.computed[vs[1]][vs[2]] <= 1
              /\ Len(ReadsOf(vs)) <= 2
              /\ ReadsOf(vs) # <<>> => memo.computed[vs[1]][vs[2]] = 1
              /\ \A i \in DOMAIN ReadsOf(vs) : ReadsOf(vs)[i].value = ReadsOf(vs)[1].value

\* A run over two versions that take the package's entrypoints: the glob
\* sets were compiled once for three sources or more, and a source was read
\* twice after one computation.
C21_Witness ==
    /\ memo.pc = "done"
    /\ memo.result = "Ok"
    /\ memo.compiled.pkg = 1
    /\ Cardinality({vs[1] : vs \in ClassifiedByPackage}) = 2
    /\ Cardinality(ClassifiedByPackage) >= 3
    /\ \E vs \in MemoSources : Len(ReadsOf(vs)) = 2 /\ memo.computed[vs[1]][vs[2]] = 1

\* A version with its own entrypoints: its glob sets were compiled once for
\* its two sources and the package's were not compiled.
C21_WitnessVersion ==
    /\ memo.pc = "done"
    /\ memo.result = "Ok"
    /\ memo.compiled.pkg = 0
    /\ \E v \in MemoVersions :
          /\ memo.compiled.vers[v] = 1
          /\ memo.config.versions[v].entrypoints.some
          /\ Len(memo.config.versions[v].files) = 2

====
